---- MODULE Spec2Model ----
(***************************************************************************)
(* A model of git-revise (src/gitrevise): the in-memory object database    *)
(* mirror (odb.py), the three-way merge (merge.py), the todo engine        *)
(* (todo.py) and the two command paths (tui.py, utils.py).                 *)
(*                                                                         *)
(* Object identifiers.  Oid.for_object hashes the type tag and the body    *)
(* with SHA-1.  The model takes the hash to be collision free and writes   *)
(* an identifier as the tagged body itself: [blob |-> b], [tree |-> e] or  *)
(* the record of a commit's headers and message.  Two objects have the     *)
(* same identifier exactly when they have the same type and body.          *)
(* A blob body is a file, a sequence of lines; a commit message is a       *)
(* sequence of paragraphs.                                                 *)
(***************************************************************************)
EXTENDS Integers, Sequences, FiniteSets, TLC

VARIABLES
    disk,       \* on-disk object store: the identifiers git cat-file can serve
    diskRef,    \* on-disk value of the reference being revised (None: missing)
    objects,    \* Repository._objects: identifier -> [gen, persisted]
    made,       \* every instance handed out by a constructor or by get_obj
    ref,        \* the Reference object: [live, target]
    moved,      \* another process wrote the reference since it was last read
    last,       \* what the last operation did (observation only)
    inp,        \* the arguments of the function under study
    out,        \* what the function under study returned or raised
    run         \* one run of the tool: its position and its local variables

odbVars == <<disk, diskRef, objects, made, ref, moved, last>>
vars == <<disk, diskRef, objects, made, ref, moved, last, inp, out, run>>

(***************************************************************************)
(* Bounds of the model.                                                    *)
(***************************************************************************)
MaxWrites == 2      \* a failing hash-object fails after at most this many writes
MaxChain == 2       \* commits built in memory on top of the commits on disk
MaxLine == 2        \* the distinct lines a file is made of
MaxTodo == 3        \* steps of an edited todo list
MaxFullKinds == 2   \* todo lists up to this length are edited with every kind
MaxSquash == 4      \* commits of a range given to autosquash_todos
MaxHunk == 2        \* lines of text in one side of a conflict
MaxCached == 2      \* objects in the cache when an abbreviation is looked up
MaxParents == 2     \* parents of a commit whose body is parsed
MaxApply == 2       \* steps of a todo list applied atop a root or no base
MaxCalls == 3       \* get_obj calls made after the repository is opened

(***************************************************************************)
(* Objects (odb.py).                                                       *)
(***************************************************************************)
None == [none |-> 0]

NameOrder == <<"a", "b">>
Names == {NameOrder[i] : i \in 1..Len(NameOrder)}

Entry(mode, oid) == [mode |-> mode, oid |-> oid]

\* Oid.for_object, per type tag
BlobOid(body) == [blob |-> body]
TreeOid(entries) == [tree |-> entries]
CommitOid(tree, parents, author, committer, message) ==
    [tree_oid |-> tree, parent_oids |-> parents, author |-> author,
     committer |-> committer, message |-> message]

IsBlob(o) == DOMAIN o = {"blob"}
IsTree(o) == DOMAIN o = {"tree"}
IsCommit(o) == "tree_oid" \in DOMAIN o

\* Tree(repo, b""): no entry under any name
NoEntries == [n \in Names |-> None]
EmptyTree == TreeOid(NoEntries)

\* Mode.is_file
is_file(mode) == mode \in {"REGULAR", "EXEC"}

(***************************************************************************)
(* The state the odb operations work on, threaded through them:            *)
(*   disk, objects, made as the variables; fuel: hash-object invocations   *)
(*   that still succeed (-1: all of them); ok: no exception so far;        *)
(*   ret: the instance returned.                                           *)
(***************************************************************************)
Instance(oid, gen) == [oid |-> oid, gen |-> gen]

\* GitObj.__new__, as a buggy variant would do it: no cache lookup
GitObj_new_nocache(oid, st) ==
    LET gen == IF oid \in DOMAIN st.objects THEN st.objects[oid].gen + 1 ELSE 1
        entry == [gen |-> gen, persisted |-> FALSE]
    IN  [st EXCEPT !.objects = (oid :> entry) @@ @,
                   !.made = @ \cup {Instance(oid, gen)},
                   !.ret = Instance(oid, gen)]

\* GitObj.__new__: the cached instance if there is one, else a fresh one
GitObj_new(oid, st) ==
    IF oid \in DOMAIN st.objects
    THEN [st EXCEPT !.made = @ \cup {Instance(oid, st.objects[oid].gen)},
                    !.ret = Instance(oid, st.objects[oid].gen)]
    ELSE [st EXCEPT !.objects = (oid :> [gen |-> 1, persisted |-> FALSE]) @@ @,
                    !.made = @ \cup {Instance(oid, 1)},
                    !.ret = Instance(oid, 1)]

\* Repository.get_obj for an Oid.  A full identifier that cat-file reports
\* missing matches no cached identifier (the cache was consulted first), so
\* the abbreviation scan finds nothing and MissingObject is raised.
get_obj(oid, st) ==
    IF oid \in DOMAIN st.objects
    THEN [st EXCEPT !.made = @ \cup {Instance(oid, st.objects[oid].gen)},
                    !.ret = Instance(oid, st.objects[oid].gen)]
    ELSE IF oid \in st.disk
    THEN LET st1 == GitObj_new(oid, st)
         IN  [st1 EXCEPT !.objects[oid].persisted = TRUE]
    ELSE [st EXCEPT !.ok = FALSE]

\* Commit._persist_deps / Tree._persist_deps: what is persisted first, in order
\* (Entry.persist skips gitlinks)
RECURSIVE EntryDeps(_, _)
EntryDeps(entries, i) ==
    IF i > Len(NameOrder) THEN <<>>
    ELSE LET e == entries[NameOrder[i]]
         IN  (IF e # None /\ e.mode # "GITLINK" THEN <<e.oid>> ELSE <<>>)
             \o EntryDeps(entries, i + 1)

persist_deps(oid) ==
    IF IsCommit(oid) THEN <<oid.tree_oid>> \o oid.parent_oids
    ELSE IF IsTree(oid) THEN EntryDeps(oid.tree, 1)
    ELSE <<>>

RECURSIVE persist_from(_, _, _)

\* a buggy GitObj.persist: marks the object persisted whatever hash-object did
persist_flag_early(oid, st) ==
    IF ~st.ok \/ st.objects[oid].persisted THEN st
    ELSE LET st1 == persist_from(persist_deps(oid), 1, st)
         IN  IF st1.fuel = 0
             THEN [st1 EXCEPT !.ok = FALSE, !.objects[oid].persisted = TRUE]
             ELSE [st1 EXCEPT !.disk = @ \cup {oid},
                              !.objects[oid].persisted = TRUE,
                              !.fuel = @ - 1]

\* GitObj.persist of a cached object
persist(oid, st) ==
    IF ~st.ok \/ st.objects[oid].persisted THEN st
    ELSE LET st1 == persist_from(persist_deps(oid), 1, st)
         IN  IF ~st1.ok THEN st1
             ELSE IF st1.fuel = 0 THEN [st1 EXCEPT !.ok = FALSE]
             ELSE [st1 EXCEPT !.disk = @ \cup {oid},
                              !.objects[oid].persisted = TRUE,
                              !.fuel = @ - 1]

\* the loop of _persist_deps: get each dependency, persist it
persist_from(deps, i, st) ==
    IF i > Len(deps) \/ ~st.ok THEN st
    ELSE LET got == get_obj(deps[i], st)
         IN  IF ~got.ok THEN got
             ELSE persist_from(deps, i + 1, persist(deps[i], got))


(***************************************************************************)
(* Repository.new_tree, Repository.new_commit (signing off: sign_buffer    *)
(* returns b"", so the body holds no gpgsig header).                       *)
(***************************************************************************)
DefaultAuthor == "default_author"
DefaultCommitter == "default_committer"

new_tree(entries, st) == GitObj_new(TreeOid(entries), st)

new_commit(tree, parents, message, author, st) ==
    GitObj_new(CommitOid(tree, parents, author, DefaultCommitter, message), st)

(***************************************************************************)
(* Reference (odb.py).  refresh asks get_obj for the full reference name,  *)
(* a string: cat-file answers from disk, and a missing answer for a name   *)
(* that is no hexadecimal string raises MissingObject.                     *)
(***************************************************************************)
get_obj_name(st, onDisk) ==
    IF onDisk = None \/ onDisk \notin st.disk THEN [st EXCEPT !.ok = FALSE]
    ELSE LET st1 == GitObj_new(onDisk, st)
         IN  [st1 EXCEPT !.objects[onDisk].persisted = TRUE]

\* Reference.refresh: the new target
Reference_refresh(st, onDisk) ==
    LET got == get_obj_name(st, onDisk)
    IN  IF got.ok THEN [st |-> got, target |-> onDisk]
        ELSE [st |-> [got EXCEPT !.ok = TRUE], target |-> None]

\* git update-ref <name> <new> [<old>]: with <old>, the reference must hold it
update_ref(onDisk, new, old) ==
    IF old # None /\ onDisk # old
    THEN [ok |-> FALSE, onDisk |-> onDisk]
    ELSE [ok |-> TRUE, onDisk |-> new]

\* a buggy Reference.update: the expected old value is never passed
Reference_update_blind(target, new, st, onDisk) ==
    LET st1 == persist(new, st)
        upd == update_ref(onDisk, new, None)
    IN  IF ~st1.ok
        THEN [st |-> st1, ok |-> FALSE, invoked |-> FALSE,
              onDisk |-> onDisk, target |-> target]
        ELSE [st |-> st1, ok |-> TRUE, invoked |-> TRUE,
              onDisk |-> upd.onDisk, target |-> new]

\* a buggy Reference.update: update-ref runs without persisting first
Reference_update_nopersist(target, new, st, onDisk) ==
    LET upd == update_ref(onDisk, new, target)
    IN  [st |-> st, ok |-> upd.ok, invoked |-> TRUE, onDisk |-> upd.onDisk,
         target |-> IF upd.ok THEN new ELSE target]

\* Reference.update(new, reason)
Reference_update(target, new, st, onDisk) ==
    LET st1 == persist(new, st)
        upd == update_ref(onDisk, new, target)
    IN  IF ~st1.ok
        THEN [st |-> st1, ok |-> FALSE, invoked |-> FALSE,
              onDisk |-> onDisk, target |-> target]
        ELSE [st |-> st1, ok |-> upd.ok, invoked |-> TRUE,
              onDisk |-> upd.onDisk,
              target |-> IF upd.ok THEN new ELSE target]

(***************************************************************************)
(* The object database and the reference as state machines.                *)
(*   SpecOdb: constructors, get_obj and persist over one cache.            *)
(*   SpecRef: the same constructors with Reference.refresh, Reference.update*)
(*            and another process that writes the reference.               *)
(***************************************************************************)
RECURSIVE Depth(_)
Depth(c) == IF c.parent_oids = <<>> THEN 1 ELSE 1 + Depth(c.parent_oids[1])

\* the store on disk at start: two commits, the later one with a gitlink
Ext == [ext |-> 0]
B0 == BlobOid(<<"0">>)
T0 == TreeOid([a |-> Entry("REGULAR", B0), b |-> None])
T1 == TreeOid([a |-> Entry("REGULAR", B0), b |-> Entry("GITLINK", Ext)])
C0 == CommitOid(T0, <<>>, "author", "committer", <<"m0">>)
C1 == CommitOid(T1, <<C0>>, "author", "committer", <<"m1">>)
InitDisk == {B0, T0, T1, C0, C1}

\* the trees the constructors are asked for: a file; a directory and a gitlink
B1 == BlobOid(<<"1">>)
FileTree == [a |-> Entry("REGULAR", B1), b |-> None]
DirTree == [a |-> Entry("DIR", TreeOid(FileTree)), b |-> Entry("GITLINK", Ext)]
TreeShapes == {FileTree, DirTree}

St(fuel) == [disk |-> disk, objects |-> objects, made |-> made,
             fuel |-> fuel, ok |-> TRUE, ret |-> None]

Store(st) ==
    /\ disk' = st.disk
    /\ objects' = st.objects
    /\ made' = st.made

CachedTopTrees == {o \in DOMAIN objects : IsTree(o) /\ o.tree["b"] # None}
CachedCommits == {o \in DOMAIN objects : IsCommit(o)}

InitOdb ==
    /\ disk = InitDisk
    /\ diskRef \in {None, C0, C1}
    /\ objects = <<>>
    /\ made = {}
    /\ ref = [live |-> FALSE, target |-> None]
    /\ moved = FALSE
    /\ last = [op |-> "init"]
    /\ inp = None
    /\ out = None
    /\ run = None

\* the objects are built bottom-up, as the merge and the rebase build them:
\* a tree from entries whose objects exist, a commit from a Tree and a Commit
Exists(oid) == oid \in DOMAIN objects \cup disk

\* Blob(repo, body)
NewBlob ==
    /\ Store(GitObj_new(B1, St(-1)))
    /\ last' = [op |-> "new", hit |-> B1 \in DOMAIN objects]
    /\ UNCHANGED <<diskRef, ref, moved, inp, out, run>>

\* repo.new_tree(entries)
NewTree ==
    \E entries \in TreeShapes :
        /\ \A i \in 1..Len(persist_deps(TreeOid(entries))) :
                Exists(persist_deps(TreeOid(entries))[i])
        /\ Store(new_tree(entries, St(-1)))
        /\ last' = [op |-> "new", hit |-> TreeOid(entries) \in DOMAIN objects]
        /\ UNCHANGED <<diskRef, ref, moved, inp, out, run>>

\* repo.new_commit(tree, parents, message): a top-level tree (every commit of
\* this store carries the gitlink) on the tip on disk or on a commit built here
IsTip(o) == Depth(o) >= Depth(C1) /\ Depth(o) < Depth(C1) + MaxChain

NewCommit ==
    \E t \in CachedTopTrees, p \in {c \in CachedCommits : IsTip(c)} :
        /\ Store(new_commit(t, <<p>>, <<"new">>, DefaultAuthor, St(-1)))
        /\ last' = [op |-> "new",
                    hit |-> CommitOid(t, <<p>>, DefaultAuthor, DefaultCommitter, <<"new">>)
                                \in DOMAIN objects]
        /\ UNCHANGED <<diskRef, ref, moved, inp, out, run>>

\* repo.get_obj(oid): a cached identifier, one on disk only, one in neither
GetObj ==
    \E oid \in DOMAIN objects \cup {C1, BlobOid(<<"2">>)} :
        /\ LET st == get_obj(oid, St(-1))
           IN  /\ Store(st)
               /\ last' = [op |-> "get", ok |-> st.ok,
                           hit |-> oid \in DOMAIN objects]
        /\ UNCHANGED <<diskRef, ref, moved, inp, out, run>>

\* repo.get_obj("HEAD"): by name, answered from disk
GetObjName ==
    /\ LET st == get_obj_name(St(-1), diskRef)
       IN  /\ Store([st EXCEPT !.ok = TRUE])
           /\ last' = [op |-> "get", ok |-> st.ok,
                       hit |-> diskRef \in DOMAIN objects]
    /\ UNCHANGED <<diskRef, ref, moved, inp, out, run>>

\* obj.persist(), hash-object failing after `fuel` writes (-1: never)
Persist ==
    \E oid \in DOMAIN objects, fuel \in -1..MaxWrites :
        /\ ~objects[oid].persisted
        /\ LET st == persist(oid, St(fuel))
           IN  /\ Store(st)
               /\ last' = [op |-> "persist", ok |-> st.ok]
        /\ UNCHANGED <<diskRef, ref, moved, inp, out, run>>

NextOdb ==
    \/ NewBlob
    \/ NewTree
    \/ NewCommit
    \/ GetObj
    \/ GetObjName
    \/ Persist

SpecOdb == InitOdb /\ [][NextOdb]_vars

\* Reference.__init__ and Reference.refresh
Refresh ==
    /\ LET r == Reference_refresh(St(-1), diskRef)
       IN  /\ Store(r.st)
           /\ ref' = [live |-> TRUE, target |-> r.target]
    /\ moved' = FALSE
    /\ last' = [op |-> "refresh"]
    /\ UNCHANGED <<diskRef, inp, out, run>>

\* ref.update(new, reason), hash-object failing after `fuel` writes
Update ==
    \E new \in CachedCommits, fuel \in -1..MaxWrites :
        /\ ref.live
        /\ LET r == Reference_update(ref.target, new, St(fuel), diskRef)
           IN  /\ Store(r.st)
               /\ diskRef' = r.onDisk
               /\ ref' = [ref EXCEPT !.target = r.target]
               /\ last' = [op |-> "update", ok |-> r.ok, invoked |-> r.invoked,
                           stored |-> r.st.ok, new |-> new,
                           target |-> ref.target, onDisk |-> diskRef,
                           moved |-> moved]
        /\ UNCHANGED <<moved, inp, out, run>>

\* another process points the reference at a commit of the store, or deletes it
ExternalMove ==
    \E v \in {None} \cup {c \in InitDisk : IsCommit(c)} :
        /\ v # diskRef
        /\ diskRef' = v
        /\ moved' = TRUE
        /\ last' = [op |-> "external"]
        /\ UNCHANGED <<disk, objects, made, ref, inp, out, run>>

NextRef ==
    \/ NewBlob
    \/ NewTree
    \/ NewCommit
    \/ Refresh
    \/ Update
    \/ ExternalMove

SpecRef == InitOdb /\ [][NextRef]_vars

(***************************************************************************)
(* The three-way merge (merge.py).  Every operator returns a record        *)
(* [ok, err, ret, calls]: ok is FALSE when the code raises err, ret is the *)
(* value returned, calls lists the tree merges, prompts, helpers and       *)
(* editors run so far.  The user is a function from entry name to the answers given at    *)
(* that path: choice answers "Resolution or (A)bort?", edit answers "Edit  *)
(* conflicted file?", editor and text are what the editor does, done       *)
(* answers "Merge successful?".  Files have at most one line, so that git  *)
(* merge-file merges cleanly exactly when a side kept the base or both     *)
(* sides agree.  The rerere cache is off (replay_recorded_resolution       *)
(* returns no resolution and record_resolution records nothing).           *)
(***************************************************************************)
Lines == {ToString(i) : i \in 1..MaxLine}
EmptyBody == <<>>
Bodies == {EmptyBody} \cup {<<l>> : l \in Lines}

Choices == {"1", "2", "A"}
Answers ==
    {[choice |-> c, edit |-> "n", editor |-> "ok", text |-> EmptyBody, done |-> "n"] :
        c \in Choices}
    \cup {[choice |-> c, edit |-> "y", editor |-> "error", text |-> EmptyBody, done |-> "n"] :
        c \in Choices}
    \cup {[choice |-> c, edit |-> "y", editor |-> "ok", text |-> t, done |-> d] :
        c \in Choices, t \in Bodies, d \in {"y", "n"}}

Ok(ret, calls) == [ok |-> TRUE, err |-> "", ret |-> ret, calls |-> calls]
Raise(err, calls) == [ok |-> FALSE, err |-> err, ret |-> None, calls |-> calls]

Entry_blob(e) == IF is_file(e.mode) THEN e.oid.blob ELSE EmptyBody
Entry_tree(e) == IF e.mode = "DIR" THEN e.oid ELSE EmptyTree

conflict_prompt_default(descr, current, other, char, calls) ==
    IF char = "2" THEN Ok(other, Append(calls, descr))
    ELSE Ok(current, Append(calls, descr))

conflict_prompt(descr, current, other, char, calls) ==
    IF char = "1" THEN Ok(current, Append(calls, descr))
    ELSE IF char = "2" THEN Ok(other, Append(calls, descr))
    ELSE Raise("MergeConflict", Append(calls, descr))

\* git merge-file -p on files of at most one line
merge_files(current, base, other) ==
    IF current = base THEN [clean |-> TRUE, merged |-> other]
    ELSE IF other = base THEN [clean |-> TRUE, merged |-> current]
    ELSE IF current = other THEN [clean |-> TRUE, merged |-> current]
    ELSE [clean |-> FALSE,
          merged |-> <<"<<<<<<<">> \o current \o <<"=======">> \o other \o <<">>>>>>>">>]

merge_blobs(current, base, other, ans, calls) ==
    LET mf == merge_files(current, base, other)
        c1 == Append(calls, "merge-file")
        c2 == Append(c1, "Edit conflicted file?")
        c3 == Append(c2, "editor")
        c4 == Append(c3, "Merge successful?")
    IN  IF mf.clean THEN Ok(BlobOid(mf.merged), c1)
        ELSE IF ans.edit = "n" THEN Raise("MergeConflict", c2)
        ELSE IF ans.editor = "error" THEN Raise("EditorError", c3)
        ELSE IF ans.done # "y" THEN Raise("MergeConflict", c4)
        ELSE Ok(BlobOid(ans.text), c4)

RECURSIVE merge_entries(_, _, _, _, _, _)
RECURSIVE merge_trees(_, _, _, _, _)
RECURSIVE merge_names(_, _, _, _, _, _, _)

\* merge_entries from "Time to merge the actual entries!" on
merge_mode(mode, current, base, other, user, name, calls) ==
    LET entry_of(r) == IF r.ok THEN Ok(Entry(mode, r.ret), r.calls) ELSE r
    IN  IF is_file(mode)
        THEN entry_of(merge_blobs(Entry_blob(current),
                                  IF base # None /\ is_file(base.mode)
                                  THEN Entry_blob(base) ELSE EmptyBody,
                                  Entry_blob(other), user[name], calls))
        ELSE IF mode = "DIR"
        THEN entry_of(merge_trees(Entry_tree(current),
                                  IF base # None /\ base.mode = "DIR"
                                  THEN Entry_tree(base) ELSE EmptyTree,
                                  Entry_tree(other), user, calls))
        ELSE IF mode = "SYMLINK"
        THEN conflict_prompt("Symlink", current, other, user[name].choice, calls)
        ELSE IF mode = "GITLINK"
        THEN conflict_prompt("Submodule", current, other, user[name].choice, calls)
        ELSE Raise("ValueError", calls)

merge_entries_default_mode(current, base, other, user, name, calls) ==
    IF base = current THEN Ok(other, calls)
    ELSE IF base = other THEN Ok(current, calls)
    ELSE IF current = other THEN Ok(current, calls)
    ELSE IF current = None \/ other = None
    THEN conflict_prompt("Deletion", current, other, user[name].choice, calls)
    ELSE IF current.mode # other.mode
            /\ ~(is_file(current.mode) /\ is_file(other.mode))
    THEN conflict_prompt("Entry type", current, other, user[name].choice, calls)
    ELSE merge_mode(IF current.mode = other.mode THEN current.mode
                    ELSE IF base # None /\ base.mode = current.mode
                    THEN other.mode
                    ELSE current.mode,
                    current, base, other, user, name, calls)

merge_entries_ignore_other(current, base, other, user, name, calls) ==
    IF base = current \/ base = other \/ current = other THEN Ok(current, calls)
    ELSE conflict_prompt("Deletion", current, other, user[name].choice, calls)

merge_entries(current, base, other, user, name, calls) ==
    LET with_mode(m) ==
            IF m.ok THEN merge_mode(m.ret, current, base, other, user, name, m.calls)
            ELSE m
    IN  IF base = current THEN Ok(other, calls)
        ELSE IF base = other THEN Ok(current, calls)
        ELSE IF current = other THEN Ok(current, calls)
        ELSE IF current = None \/ other = None
        THEN conflict_prompt("Deletion", current, other, user[name].choice, calls)
        ELSE IF current.mode # other.mode
                /\ ~(is_file(current.mode) /\ is_file(other.mode))
        THEN conflict_prompt("Entry type", current, other, user[name].choice, calls)
        ELSE with_mode(
                IF current.mode = other.mode THEN Ok(current.mode, calls)
                ELSE IF base # None /\ base.mode = current.mode
                THEN Ok(other.mode, calls)
                ELSE IF base # None /\ base.mode = other.mode
                THEN Ok(current.mode, calls)
                ELSE conflict_prompt("File mode", current.mode, other.mode,
                                     user[name].choice, calls))

\* the loop of merge_trees over the names mentioned in any of the trees
merge_names(i, current, base, other, user, entries, calls) ==
    LET name == NameOrder[i]
        next(merged) ==
            IF merged.ok
            THEN merge_names(i + 1, current, base, other, user,
                             [entries EXCEPT ![name] = merged.ret], merged.calls)
            ELSE merged
    IN  IF i > Len(NameOrder) THEN Ok(entries, calls)
        ELSE IF current[name] = None /\ base[name] = None /\ other[name] = None
        THEN merge_names(i + 1, current, base, other, user, entries, calls)
        ELSE next(merge_entries(current[name], base[name], other[name],
                                user, name, calls))

merge_trees(current, base, other, user, calls) ==
    LET tree_of(r) == IF r.ok THEN Ok(TreeOid(r.ret), r.calls) ELSE r
    IN  tree_of(merge_names(1, current.tree, base.tree, other.tree, user,
                            NoEntries, Append(calls, "merge_trees")))

(***************************************************************************)
(* Commit.parent_tree, Commit.update (odb.py) and rebase (merge.py).  kw   *)
(* is the record of the keyword arguments given to update.                 *)
(***************************************************************************)
is_root(commit) == commit.parent_oids = <<>>

parent_tree(commit) ==
    IF is_root(commit) THEN EmptyTree ELSE commit.parent_oids[1].tree_oid

Commit_update_always(commit, kw) ==
    CommitOid(IF "tree" \in DOMAIN kw THEN kw.tree ELSE commit.tree_oid,
              IF "parents" \in DOMAIN kw THEN kw.parents ELSE commit.parent_oids,
              IF "author" \in DOMAIN kw THEN kw.author ELSE commit.author,
              DefaultCommitter,
              IF "message" \in DOMAIN kw THEN kw.message ELSE commit.message)

Commit_update(commit, kw) ==
    LET tree == IF "tree" \in DOMAIN kw THEN kw.tree ELSE commit.tree_oid
        parents == IF "parents" \in DOMAIN kw THEN kw.parents ELSE commit.parent_oids
        message == IF "message" \in DOMAIN kw THEN kw.message ELSE commit.message
        author == IF "author" \in DOMAIN kw THEN kw.author ELSE commit.author
        recommit == "recommit" \in DOMAIN kw /\ kw.recommit
        unchanged == /\ tree = commit.tree_oid
                     /\ parents = commit.parent_oids
                     /\ message = commit.message
                     /\ author = commit.author
    IN  IF ~recommit /\ unchanged THEN commit
        ELSE CommitOid(tree, parents, author, DefaultCommitter, message)

get_tree(cmt) == IF cmt = None THEN EmptyTree ELSE cmt.tree_oid

rebase_swapped(commit, new_parent, user) ==
    LET orig_parent == IF is_root(commit) THEN None ELSE commit.parent_oids[1]
        onto(tree) ==
            IF tree.ok
            THEN Ok(Commit_update(commit,
                        [tree |-> tree.ret,
                         parents |-> IF new_parent = None THEN <<>>
                                     ELSE <<new_parent>>]),
                    tree.calls)
            ELSE tree
    IN  onto(merge_trees(get_tree(orig_parent), get_tree(new_parent),
                         get_tree(commit), user, <<>>))

rebase_always(commit, new_parent, user) ==
    LET orig_parent == IF is_root(commit) THEN None ELSE commit.parent_oids[1]
        onto(tree) ==
            IF tree.ok
            THEN Ok(Commit_update(commit,
                        [tree |-> tree.ret,
                         parents |-> IF new_parent = None THEN <<>>
                                     ELSE <<new_parent>>]),
                    tree.calls)
            ELSE tree
    IN  IF ~is_root(commit) /\ Len(commit.parent_oids) # 1
        THEN Raise("ValueError", <<>>)
        ELSE onto(merge_trees(get_tree(new_parent), get_tree(orig_parent),
                              get_tree(commit), user, <<>>))

rebase(commit, new_parent, user) ==
    LET orig_parent == IF is_root(commit) THEN None ELSE commit.parent_oids[1]
        onto(tree) ==
            IF tree.ok
            THEN Ok(Commit_update(commit,
                        [tree |-> tree.ret,
                         parents |-> IF new_parent = None THEN <<>>
                                     ELSE <<new_parent>>]),
                    tree.calls)
            ELSE tree
    IN  IF ~is_root(commit) /\ Len(commit.parent_oids) # 1
        THEN Raise("ValueError", <<>>)
        ELSE IF orig_parent = new_parent THEN Ok(commit, <<>>)
        ELSE onto(merge_trees(get_tree(new_parent), get_tree(orig_parent),
                              get_tree(commit), user, <<>>))

(***************************************************************************)
(* The merge of one entry and of one tree, on every triple of entries.     *)
(***************************************************************************)
Ext1 == [ext |-> 1]
FileEntries == {Entry(m, BlobOid(b)) : m \in {"REGULAR", "EXEC"}, b \in Bodies}
LinkEntries ==
    {Entry("SYMLINK", BlobOid(<<l>>)) : l \in Lines}
    \cup {Entry("GITLINK", Ext), Entry("GITLINK", Ext1)}
DirEntries ==
    {Entry("DIR", TreeOid([a |-> Entry("REGULAR", BlobOid(<<l>>)), b |-> None])) :
        l \in Lines}
MergeEntrySet == FileEntries \cup LinkEntries \cup DirEntries \cup {None}

\* the user gives the same answers at every path
UniformUsers == {[n \in Names |-> ans] : ans \in Answers}

TreeWith(a, b) == TreeOid([a |-> a, b |-> b])
KeptEntry == Entry("REGULAR", BlobOid(<<"1">>))

OdbIdle ==
    /\ disk = InitDisk
    /\ diskRef = None
    /\ objects = <<>>
    /\ made = {}
    /\ ref = [live |-> FALSE, target |-> None]
    /\ moved = FALSE
    /\ last = [op |-> "init"]

InitMerge ==
    /\ OdbIdle
    /\ inp \in [current : MergeEntrySet, base : MergeEntrySet, other : MergeEntrySet]
    /\ out = None
    /\ run = None

\* merge_entries(path, labels, current, base, other)
MergeEntries ==
    \E user \in UniformUsers :
        /\ out = None
        /\ out' = [op |-> "merge_entries", user |-> user,
                   r |-> merge_entries(inp.current, inp.base, inp.other, user, "a", <<>>)]
        /\ UNCHANGED <<odbVars, inp, run>>

\* merge_trees(path, labels, current, base, other): the entry under test at
\* "a", and at "b" an entry that other deletes and current leaves alone
MergeTrees ==
    \E user \in UniformUsers :
        /\ out = None
        /\ out' = [op |-> "merge_trees", user |-> user,
                   r |-> merge_trees(TreeWith(inp.current, KeptEntry),
                                     TreeWith(inp.base, KeptEntry),
                                     TreeWith(inp.other, None), user, <<>>)]
        /\ UNCHANGED <<odbVars, inp, run>>

NextMerge ==
    \/ MergeEntries
    \/ MergeTrees

SpecMerge == InitMerge /\ [][NextMerge]_vars

(***************************************************************************)
(* rebase(commit, new_parent) on a small universe of commits: roots,       *)
(* their children, a merge commit.                                         *)
(***************************************************************************)
RebaseTrees ==
    {TreeWith(x, y) :
        x \in {None} \cup {Entry("REGULAR", BlobOid(<<l>>)) : l \in Lines},
        y \in {None, KeptEntry}}
Roots == {CommitOid(t, <<>>, "author", "committer", <<"root">>) : t \in RebaseTrees}
Children ==
    {CommitOid(t, <<p>>, "author2", "committer", <<"child">>) :
        t \in RebaseTrees, p \in Roots}
MergeCommit ==
    CommitOid(EmptyTree,
              <<CommitOid(EmptyTree, <<>>, "author", "committer", <<"root">>),
                CommitOid(TreeWith(None, KeptEntry), <<>>, "author", "committer", <<"root">>)>>,
              "author", "committer", <<"merge">>)

InitRebase ==
    /\ OdbIdle
    /\ inp \in [commit : Roots \cup Children \cup {MergeCommit},
                new_parent : Roots \cup {None, MergeCommit}]
    /\ out = None
    /\ run = None

\* commit.rebase(new_parent)
Rebase ==
    \E user \in UniformUsers :
        /\ out' = [op |-> "rebase", user |-> user,
                   r |-> rebase(inp.commit, inp.new_parent, user)]
        /\ UNCHANGED <<odbVars, inp, run>>

NextRebase == Rebase

SpecRebase == InitRebase /\ [][NextRebase]_vars

(***************************************************************************)
(* The todo list (todo.py).  A step is [kind, commit], with a message      *)
(* field when Step.message is set.                                         *)
(***************************************************************************)
StepKinds == {"pick", "fixup", "squash", "reword", "cut", "index"}

Step(kind, commit) == [kind |-> kind, commit |-> commit]

RECURSIVE commit_range(_, _)
commit_range(base, tip) ==
    IF tip = base THEN Ok(<<>>, <<>>)
    ELSE IF is_root(tip)
    THEN IF base = None THEN Ok(<<tip>>, <<>>) ELSE Raise("ValueError", <<>>)
    ELSE IF Len(tip.parent_oids) # 1 THEN Raise("ValueError", <<>>)
    ELSE LET rest == commit_range(base, tip.parent_oids[1])
         IN  IF rest.ok THEN Ok(Append(rest.ret, tip), <<>>) ELSE rest

build_todos(commits, index) ==
    [i \in 1..Len(commits) |-> Step("pick", commits[i])]
        \o (IF index # None THEN <<Step("index", index)>> ELSE <<>>)

ErrDuplicate == "Unexpected duplicate commit found in todos"
ErrAdded == "Unexpected commits not referenced in original TODO list"
ErrMissing == "Unexpected commits missing from TODO list"
ErrIndexOrder == "'index' actions follow all non-index todo items"

Accept == [ok |-> TRUE, err |-> "", msg |-> ""]
Reject(err, msg) == [ok |-> FALSE, err |-> err, msg |-> msg]

validate_todos_any_order(old, new) ==
    LET old_set == {old[i].commit : i \in 1..Len(old)}
        new_set == {new[i].commit : i \in 1..Len(new)}
    IN  IF Cardinality(new_set) # Len(new) THEN Reject("ValueError", ErrDuplicate)
        ELSE IF new_set \ old_set # {} THEN Reject("ValueError", ErrAdded)
        ELSE IF old_set \ new_set # {} THEN Reject("ValueError", ErrMissing)
        ELSE Accept

validate_todos(old, new) ==
    LET old_set == {old[i].commit : i \in 1..Len(old)}
        new_set == {new[i].commit : i \in 1..Len(new)}
    IN  IF Cardinality(old_set) # Len(old)
        THEN Reject("AssertionError", "Unexpected duplicate original commit!")
        ELSE IF Cardinality(new_set) # Len(new)
        THEN Reject("ValueError", ErrDuplicate)
        ELSE IF new_set \ old_set # {} THEN Reject("ValueError", ErrAdded)
        ELSE IF old_set \ new_set # {} THEN Reject("ValueError", ErrMissing)
        ELSE IF \E i \in 1..Len(new), j \in 1..Len(new) :
                    i < j /\ new[i].kind = "index" /\ new[j].kind # "index"
        THEN Reject("ValueError", ErrIndexOrder)
        ELSE Accept

(***************************************************************************)
(* The history the tool runs on: a root H0, H1 and H2 on top of it, and a  *)
(* commit of the index on top of the head (Index.commit).                  *)
(***************************************************************************)
Line2Entry == Entry("REGULAR", BlobOid(<<"2">>))
H0 == CommitOid(EmptyTree, <<>>, "author", "committer", <<"m0">>)
H1 == CommitOid(TreeWith(KeptEntry, None), <<H0>>, "author", "committer", <<"m1">>)
H2 == CommitOid(TreeWith(Line2Entry, None), <<H1>>, "author2", "committer", <<"m2">>)
Staged(tree, parent) ==
    CommitOid(tree, <<parent>>, DefaultAuthor, DefaultCommitter, <<"<git index>">>)
S1 == Staged(TreeWith(Line2Entry, KeptEntry), H1)
S2 == Staged(TreeWith(KeptEntry, None), H2)

(***************************************************************************)
(* validate_todos on every edit of an original list.                       *)
(***************************************************************************)
Originals == {build_todos(<<H1, H2>>, None), build_todos(<<H1>>, S1)}
TodoSteps == {Step(k, c) : k \in StepKinds, c \in {H1, H2, S1}}
EditedTodos == UNION {[1..n -> TodoSteps] : n \in 0..MaxTodo}

InitTodo ==
    /\ OdbIdle
    /\ inp \in [old : Originals, new : EditedTodos]
    /\ out = None
    /\ run = None

\* validate_todos(old, new)
ValidateTodos ==
    /\ out' = [op |-> "validate_todos", r |-> validate_todos(inp.old, inp.new)]
    /\ UNCHANGED <<odbVars, inp, run>>

NextTodo == ValidateTodos

SpecTodo == InitTodo /\ [][NextTodo]_vars

(***************************************************************************)
(* Editing a message, cutting a commit (utils.py) and one iteration of     *)
(* apply_todos (todo.py).  These return [ok, err, ret, calls, wrote]:      *)
(* wrote is the set of objects the call persisted.  env is what the user   *)
(* does during the call: env.user answers the merge, env.editor is what    *)
(* the message editor returns ("keep" the text, a "new" text, or an        *)
(* "empty" file), env.cut says for each name whether git reset --patch     *)
(* took the final or the base entry.  The messages of the model hold no    *)
(* comment line, so the editor returns an untouched text as it was.        *)
(***************************************************************************)
Done(ret, calls, wrote) ==
    [ok |-> TRUE, err |-> "", ret |-> ret, calls |-> calls, wrote |-> wrote]
Fail(err, calls, wrote) ==
    [ok |-> FALSE, err |-> err, ret |-> None, calls |-> calls, wrote |-> wrote]

NoKw == <<>>

run_editor(text, ed) ==
    IF ed = "empty" THEN Raise("EditorError", <<"editor">>)
    ELSE Ok(IF ed = "keep" THEN text ELSE <<"edited">>, <<"editor">>)

edit_commit_message(commit, ed) ==
    LET wrote == IF Len(commit.parent_oids) < 2
                 THEN {parent_tree(commit), commit.tree_oid} ELSE {}
        message == run_editor(commit.message, ed)
    IN  IF message.ok
        THEN Done(Commit_update(commit, [message |-> message.ret]), message.calls, wrote)
        ELSE Fail(message.err, message.calls, wrote)

cut_commit_unchecked(commit, env) ==
    LET base_tree == parent_tree(commit)
        final_tree == commit.tree_oid
        mid_tree == TreeOid([n \in Names |-> IF env.cut[n] = "final"
                                             THEN final_tree.tree[n]
                                             ELSE base_tree.tree[n]])
        part1 == Commit_update(commit, [tree |-> mid_tree,
                                        message |-> <<"[1]">> \o commit.message])
    IN  Done(Commit_update(commit, [parents |-> <<part1>>,
                                    message |-> <<"[2]">> \o commit.message]),
             <<"reset --patch">>, {base_tree, final_tree, mid_tree})

cut_commit(commit, env) ==
    LET base_tree == parent_tree(commit)
        final_tree == commit.tree_oid
        mid_tree == TreeOid([n \in Names |-> IF env.cut[n] = "final"
                                             THEN final_tree.tree[n]
                                             ELSE base_tree.tree[n]])
        wrote == {base_tree, final_tree, mid_tree}
        part1 == edit_commit_message(
                    Commit_update(commit, [tree |-> mid_tree,
                                           message |-> <<"[1]">> \o commit.message]),
                    env.editor)
        part2 == edit_commit_message(
                    Commit_update(commit, [parents |-> <<part1.ret>>,
                                           message |-> <<"[2]">> \o commit.message]),
                    env.editor)
    IN  IF mid_tree = base_tree \/ mid_tree = final_tree
        THEN Fail("ValueError", <<"reset --patch">>, wrote)
        ELSE IF ~part1.ok
        THEN Fail(part1.err, <<"reset --patch">> \o part1.calls, wrote \cup part1.wrote)
        ELSE IF ~part2.ok
        THEN Fail(part2.err, <<"reset --patch">> \o part1.calls \o part2.calls,
                  wrote \cup part1.wrote \cup part2.wrote)
        ELSE Done(part2.ret, <<"reset --patch">> \o part1.calls \o part2.calls,
                  wrote \cup part1.wrote \cup part2.wrote)

\* the body of the loop of apply_todos, up to the kind's own work: ret is the
\* new current, brk says the loop is left, rebased is the step's commit
\* rebased onto current and reworded
apply_kind(current, step, env) ==
    LET kind(rebased) ==
            IF step.kind = "pick" THEN Done(rebased, <<>>, {})
            ELSE IF step.kind = "fixup"
            THEN IF current = None THEN Fail("ValueError", <<>>, {})
                 ELSE Done(Commit_update(current, [tree |-> rebased.tree_oid]),
                           <<>>, {})
            ELSE IF step.kind = "reword"
            THEN edit_commit_message(rebased, env.editor)
            ELSE IF step.kind = "squash"
            THEN IF current = None THEN Fail("ValueError", <<>>, {})
                 ELSE edit_commit_message(
                         Commit_update(current,
                             [tree |-> rebased.tree_oid,
                              message |-> current.message \o rebased.message]),
                         env.editor)
            ELSE IF step.kind = "cut" THEN cut_commit(rebased, env)
            ELSE IF step.kind = "index" THEN Done(current, <<>>, {})
            ELSE Fail("ValueError", <<>>, {})
        result(r, rebased, act) ==
            IF ~r.ok
            THEN [ok |-> FALSE, err |-> r.err, ret |-> None, brk |-> FALSE,
                  rebased |-> None, calls |-> r.calls, wrote |-> {}]
            ELSE [ok |-> act.ok, err |-> act.err, ret |-> act.ret,
                  brk |-> step.kind = "index", rebased |-> rebased,
                  calls |-> r.calls \o act.calls, wrote |-> act.wrote]
        dispatch(r, rebased) == result(r, rebased, kind(rebased))
        reworded(r) ==
            dispatch(r, Commit_update(r.ret, IF "message" \in DOMAIN step
                                             THEN [message |-> step.message]
                                             ELSE NoKw))
    IN  reworded(rebase(step.commit, current, env.user))

\* one iteration of the loop of apply_todos; folded is current before reauthor
apply_step(current, step, reauthor, env) ==
    LET authored(k) ==
            [ok |-> k.ok, err |-> k.err,
             ret |-> IF k.ok /\ ~k.brk /\ reauthor
                     THEN Commit_update(k.ret, [author |-> DefaultAuthor])
                     ELSE k.ret,
             brk |-> k.brk, rebased |-> k.rebased, calls |-> k.calls,
             wrote |-> k.wrote, folded |-> k.ret]
    IN  authored(apply_kind(current, step, env))

(***************************************************************************)
(* One run of the tool (tui.py): inner_main, then interactive() or         *)
(* noninteractive(), then update_head.  run.pc is the position, run.at the *)
(* position an exception was raised at, run.updates counts the calls of    *)
(* git update-ref, run.steps the steps and rebases completed.  Signing is  *)
(* off and autosquash is not enabled: the todo list is the one the user    *)
(* edits.  The cache of the run is not kept in `objects`: every object     *)
(* the run built is reachable from the commit it holds (RunCache).         *)
(***************************************************************************)
RECURSIVE Reach(_)
Reach(o) ==
    {o} \cup UNION {Reach(persist_deps(o)[i]) : i \in 1..Len(persist_deps(o))}

RunCache(new) == [o \in Reach(new) |-> [gen |-> 1, persisted |-> o \in disk]]

Scenarios ==
    {[target |-> H0, head |-> H2, staged |-> None],
     [target |-> H0, head |-> H1, staged |-> S1],
     [target |-> H0, head |-> H2, staged |-> S2],
     [target |-> H1, head |-> H2, staged |-> S2],
     [target |-> H2, head |-> H2, staged |-> S2],
     [target |-> None, head |-> H1, staged |-> None]}

EditorOutcomes == {"keep", "new", "empty"}
CutChoices == [Names -> {"base", "final"}]

\* a user takes side 1 and writes the first line, or takes side 2 and
\* empties the file, or aborts, or has a failing editor
RunAnswers ==
    {a \in Answers :
        \/ a.choice = "1" /\ a.editor = "ok" /\ a.done = "y" /\ a.text = <<"1">>
        \/ a.choice = "2" /\ a.editor = "ok" /\ a.done = "y" /\ a.text = EmptyBody
        \/ a.choice = "A" /\ a.edit = "n"
        \/ a.choice = "1" /\ a.editor = "error"}
RunUsers == {[n \in Names |-> a] : a \in RunAnswers}
Envs == [user : RunUsers, editor : EditorOutcomes, cut : CutChoices]

\* the part of env a step of the given kind reads; the rest is held fixed
EnvsFor(kind) ==
    {env \in Envs :
        /\ kind \notin {"reword", "squash", "cut"} => env.editor = "keep"
        /\ kind # "cut" => env.cut = [n \in Names |-> "base"]}

\* what the sequence editor can hand back for a todo list: the same number of
\* steps over the same commits, in any order and of any kind, or a step less
EditedLists(original) ==
    LET n == Len(original)
        kinds == IF n <= MaxFullKinds THEN StepKinds ELSE {"pick", "fixup", "index"}
        steps == {Step(k, original[i].commit) : k \in kinds, i \in 1..n}
    IN  [1..n -> steps] \cup {SubSeq(original, 2, n)}

\* edit_todos_msgedit: every step carries a message, the first one reworded
WithMessages(todos) ==
    [i \in 1..Len(todos) |->
        [kind |-> todos[i].kind, commit |-> todos[i].commit,
         message |-> IF i = 1 THEN <<"edited">> ELSE todos[i].commit.message]]

Failed(err) == [run EXCEPT !.pc = "failed", !.at = run.pc, !.err = err]

Wrote(trees) == disk \cup UNION {Reach(t) : t \in trees}

Observed(op, kind, ok, before, rebased, folded, calls) ==
    [op |-> op, kind |-> kind, ok |-> ok, before |-> before,
     rebased |-> rebased, folded |-> folded, calls |-> calls]

InitRun ==
    /\ inp \in [sc : Scenarios, interactive : BOOLEAN, reauthor : BOOLEAN]
    /\ disk = Reach(inp.sc.head)
                \cup (IF inp.sc.staged = None THEN {} ELSE Reach(inp.sc.staged.tree_oid))
    /\ diskRef = inp.sc.head
    /\ objects = <<>>
    /\ made = {}
    /\ ref = [live |-> FALSE, target |-> None]
    /\ moved = FALSE
    /\ last = [op |-> "init"]
    /\ out = None
    /\ run = [pc |-> "start", at |-> "", err |-> "", todos |-> <<>>,
              current |-> None, replaced |-> None, final |-> None,
              updates |-> 0, steps |-> 0]

\* inner_main: the head reference is read, the path is chosen
Start ==
    /\ run.pc = "start"
    /\ ref' = [live |-> TRUE, target |-> Reference_refresh(St(-1), diskRef).target]
    /\ moved' = FALSE
    /\ run' = IF diskRef = None THEN Failed("ValueError")
              ELSE [run EXCEPT !.pc = IF inp.interactive THEN "interactive"
                                       ELSE "noninteractive"]
    /\ UNCHANGED <<disk, diskRef, objects, made, last, inp, out>>

\* interactive(), up to apply_todos: commit_range, build_todos, edit_todos
Plan ==
    /\ run.pc = "interactive"
    /\ LET base == inp.sc.target
           to_rebase == commit_range(base, ref.target)
           original == build_todos(to_rebase.ret, inp.sc.staged)
       IN  IF ~to_rebase.ok THEN run' = Failed(to_rebase.err)
           ELSE \/ run' = Failed("EditorError")
                \/ \E todos \in EditedLists(original) \cup {WithMessages(original)} :
                     LET valid == validate_todos(original, todos)
                     IN  run' = IF ~valid.ok THEN Failed(valid.err)
                                ELSE IF todos = original
                                THEN [run EXCEPT !.pc = "done"]
                                ELSE [run EXCEPT !.pc = "apply", !.todos = todos,
                                                 !.current = base]
    /\ UNCHANGED <<odbVars, inp, out>>

\* one iteration of the loop of apply_todos
ApplyStep ==
    /\ run.pc = "apply"
    /\ run.todos # <<>>
    /\ \E env \in EnvsFor(Head(run.todos).kind) :
       \E r \in {apply_step(run.current, Head(run.todos), inp.reauthor, env)} :
            /\ run' = IF ~r.ok THEN Failed(r.err)
                      ELSE IF r.brk THEN [run EXCEPT !.pc = "apply_end"]
                      ELSE [run EXCEPT !.current = r.ret, !.todos = Tail(@),
                                       !.steps = @ + 1]
            /\ out' = Observed("step", Head(run.todos).kind, r.ok, run.current,
                               r.rebased, r.folded, r.calls)
            /\ disk' = Wrote(r.wrote)
    /\ UNCHANGED <<diskRef, objects, made, ref, moved, last, inp>>

\* apply_todos after its loop
ApplyEnd ==
    /\ run.pc = "apply_end" \/ (run.pc = "apply" /\ run.todos = <<>>)
    /\ run' = IF run.current = None THEN Failed("ValueError")
              ELSE [run EXCEPT !.pc = "update"]
    /\ UNCHANGED <<odbVars, inp, out>>

\* noninteractive(), up to the staged changes: the arguments are checked, the
\* reference is read again, the range is walked
NiStart ==
    /\ run.pc = "noninteractive"
    /\ IF inp.sc.target = None
       THEN /\ run' = Failed("ValueError")
            /\ UNCHANGED <<ref, moved>>
       ELSE /\ ref' = [live |-> TRUE,
                       target |-> Reference_refresh(St(-1), diskRef).target]
            /\ moved' = FALSE
            /\ LET to_rebase == commit_range(inp.sc.target, diskRef)
               IN  run' = IF diskRef = None THEN Failed("ValueError")
                          ELSE IF ~to_rebase.ok THEN Failed(to_rebase.err)
                          ELSE [run EXCEPT !.pc = "ni_fold",
                                           !.current = inp.sc.target,
                                           !.replaced = inp.sc.target,
                                           !.todos = to_rebase.ret,
                                           !.final = diskRef.tree_oid]
    /\ UNCHANGED <<disk, diskRef, objects, made, last, inp, out>>

\* noninteractive(): the staged changes are applied to the target
NiFold ==
    /\ run.pc = "ni_fold"
    /\ IF inp.sc.staged = None
       THEN /\ run' = [run EXCEPT !.pc = "ni_edit"]
            /\ UNCHANGED out
       ELSE \E user \in RunUsers :
            \E onto_target \in {rebase(inp.sc.staged, run.current, user)} :
                IF ~onto_target.ok
                THEN /\ run' = Failed(onto_target.err)
                     /\ out' = Observed("fold", "staged", FALSE, run.current, None,
                                        None, onto_target.calls)
                ELSE \E folded \in {Commit_update(run.current,
                                        [tree |-> onto_target.ret.tree_oid])},
                        onto_head \in {rebase(inp.sc.staged, ref.target, user)} :
                     /\ run' = IF ~onto_head.ok THEN Failed(onto_head.err)
                               ELSE [run EXCEPT !.pc = "ni_edit",
                                                !.current = folded,
                                                !.final = onto_head.ret.tree_oid]
                     /\ out' = Observed("fold", "staged", TRUE, run.current,
                                        onto_target.ret, folded, onto_target.calls)
    /\ UNCHANGED <<odbVars, inp>>

\* noninteractive(): --message, --edit, --reauthor, --cut
NiEdit ==
    /\ run.pc = "ni_edit"
    /\ \E message \in BOOLEAN, edit \in BOOLEAN, cut \in BOOLEAN,
          editor \in EditorOutcomes, choice \in CutChoices :
        LET given == IF message
                     THEN Commit_update(run.current, [message |-> <<"given">>])
                     ELSE run.current
            edited == IF edit THEN edit_commit_message(given, editor)
                      ELSE Done(given, <<>>, {})
            authored == IF inp.reauthor
                        THEN Commit_update(edited.ret, [author |-> DefaultAuthor])
                        ELSE edited.ret
            parts == IF cut
                     THEN cut_commit(authored, [editor |-> editor, cut |-> choice])
                     ELSE Done(authored, <<>>, {})
        IN  IF ~edited.ok
            THEN /\ run' = Failed(edited.err)
                 /\ disk' = Wrote(edited.wrote)
            ELSE /\ run' = IF ~parts.ok THEN Failed(parts.err)
                           ELSE IF parts.ret # run.replaced
                           THEN [run EXCEPT !.pc = "ni_rebase", !.current = parts.ret]
                           ELSE [run EXCEPT !.pc = "done"]
                 /\ disk' = Wrote(edited.wrote \cup parts.wrote)
    /\ UNCHANGED <<diskRef, objects, made, ref, moved, last, inp, out>>

\* noninteractive(): one commit of the range is rebased
NiRebase ==
    /\ run.pc = "ni_rebase"
    /\ run.todos # <<>>
    /\ \E user \in RunUsers :
       \E r \in {rebase(Head(run.todos), run.current, user)} :
            run' = IF ~r.ok THEN Failed(r.err)
                   ELSE [run EXCEPT !.current = r.ret, !.todos = Tail(@),
                                    !.steps = @ + 1]
    /\ UNCHANGED <<odbVars, inp, out>>

UpdateHead_each_step ==
    /\ run.pc \in {"apply", "ni_rebase", "update"}
    /\ run.current # None
    /\ LET r == Reference_update(ref.target, run.current,
                    [disk |-> disk, objects |-> RunCache(run.current), made |-> {},
                     fuel |-> -1, ok |-> TRUE, ret |-> None], diskRef)
       IN  /\ disk' = r.st.disk
           /\ diskRef' = r.onDisk
           /\ ref' = [ref EXCEPT !.target = r.target]
           /\ run' = [run EXCEPT !.updates = @ + 1,
                                 !.pc = IF run.pc = "update" THEN "done" ELSE @]
    /\ UNCHANGED <<objects, made, moved, last, inp, out>>

\* update_head(head, new, expected), hash-object failing after `fuel` writes
UpdateHead ==
    /\ run.pc = "update" \/ (run.pc = "ni_rebase" /\ run.todos = <<>>)
    /\ \E fuel \in -1..MaxWrites :
        LET r == Reference_update(ref.target, run.current,
                    [disk |-> disk, objects |-> RunCache(run.current), made |-> {},
                     fuel |-> fuel, ok |-> TRUE, ret |-> None], diskRef)
        IN  /\ disk' = r.st.disk
            /\ diskRef' = r.onDisk
            /\ ref' = [ref EXCEPT !.target = r.target]
            /\ run' = [run EXCEPT !.updates = @ + (IF r.invoked THEN 1 ELSE 0),
                                  !.pc = IF r.ok THEN "done" ELSE "failed",
                                  !.at = IF r.ok THEN @ ELSE "update",
                                  !.err = IF r.ok THEN @ ELSE "CalledProcessError"]
    /\ UNCHANGED <<objects, made, moved, last, inp, out>>

\* another process moves or deletes the reference while the tool runs; the
\* tool looks at the reference on disk in NiStart and in UpdateHead only, so
\* the move is taken just before one of them
Interfere ==
    /\ \/ run.pc \in {"noninteractive", "update"}
       \/ run.pc = "ni_rebase" /\ run.todos = <<>>
    /\ ~moved
    /\ \E v \in {None, H0} :
        /\ v # diskRef
        /\ diskRef' = v
    /\ moved' = TRUE
    /\ UNCHANGED <<disk, objects, made, ref, last, inp, out, run>>

Next ==
    \/ Start
    \/ Plan
    \/ ApplyStep
    \/ ApplyEnd
    \/ NiStart
    \/ NiFold
    \/ NiEdit
    \/ NiRebase
    \/ UpdateHead
    \/ Interfere

Spec == InitRun /\ [][Next]_vars

(***************************************************************************)
(* autosquash_todos (todo.py).  A summary is a sequence of symbols: the    *)
(* words "fixup!" and "squash!", the space, letters, and "#k", the text of *)
(* the identifier of the k-th commit of the range.  str.startswith is the  *)
(* prefix order of sequences.  Repository.get_commit resolves "#k" to the  *)
(* k-th commit when there is one and raises for every other text.          *)
(***************************************************************************)
summary(commit) == commit.message[1]

startswith(s, prefix) ==
    Len(prefix) <= Len(s) /\ SubSeq(s, 1, Len(prefix)) = prefix

RECURSIVE lstrip(_)
lstrip(s) == IF s # <<>> /\ Head(s) = " " THEN lstrip(Tail(s)) ELSE s

\* the loop stripping "fixup! " and "squash! ": needle.split(maxsplit=1)[1]
\* is the text after the first word and the spaces that follow it, and an
\* IndexError when nothing follows
RECURSIVE strip_prefixes(_)
strip_prefixes(needle) ==
    IF startswith(needle, <<"fixup!", " ">>) \/ startswith(needle, <<"squash!", " ">>)
    THEN IF lstrip(Tail(needle)) = <<>> THEN Raise("IndexError", <<>>)
         ELSE strip_prefixes(lstrip(Tail(needle)))
    ELSE Ok(needle, <<>>)

SquashIds == {"#1", "#2"}
IdIndex(text) == IF text = "#1" THEN 1 ELSE 2

\* repo.get_commit(needle) among the commits of the range
get_commit(needle, commits) ==
    IF Len(needle) = 1 /\ needle[1] \in SquashIds /\ IdIndex(needle[1]) <= Len(commits)
    THEN Ok(commits[IdIndex(needle[1])], <<>>)
    ELSE Raise("ValueError", <<>>)

\* the index of the first sequence of picks satisfying found, 0 when none
RECURSIVE first_seq(_, _, _, _)
first_seq(picks, i, needle, target) ==
    IF i > Len(picks) THEN 0
    ELSE IF (target = None /\ startswith(summary(picks[i][1].commit), needle))
            \/ (target # None
                /\ \E j \in 1..Len(picks[i]) : picks[i][j].commit = target)
    THEN i
    ELSE first_seq(picks, i + 1, needle, target)

add_autosquash_step_front(step, picks, commits) ==
    LET needle == strip_prefixes(summary(step.commit))
    IN  IF ~needle.ok THEN needle ELSE Ok(<<<<step>>>> \o picks, <<>>)

add_autosquash_step(step, picks, commits) ==
    LET needle == strip_prefixes(summary(step.commit))
        new_step == Step(IF startswith(summary(step.commit), <<"fixup!">>)
                         THEN "fixup" ELSE "squash", step.commit)
        by_summary == first_seq(picks, 1, needle.ret, None)
        target == get_commit(needle.ret, commits)
        by_target == IF target.ok THEN first_seq(picks, 1, needle.ret, target.ret)
                     ELSE 0
    IN  IF ~needle.ok THEN needle
        ELSE IF needle.ret # summary(step.commit) /\ by_summary # 0
        THEN Ok([picks EXCEPT ![by_summary] = Append(@, new_step)], <<>>)
        ELSE IF needle.ret # summary(step.commit) /\ by_target # 0
        THEN Ok([picks EXCEPT ![by_target] = Append(@, new_step)], <<>>)
        ELSE Ok(Append(picks, <<step>>), <<>>)

RECURSIVE autosquash_picks(_, _, _, _)
autosquash_picks(todos, i, picks, commits) ==
    IF i > Len(todos) THEN Ok(picks, <<>>)
    ELSE LET added == add_autosquash_step(todos[i], picks, commits)
         IN  IF added.ok THEN autosquash_picks(todos, i + 1, added.ret, commits)
             ELSE added

RECURSIVE Flatten(_)
Flatten(picks) == IF picks = <<>> THEN <<>> ELSE Head(picks) \o Flatten(Tail(picks))

autosquash_todos_openers(todos, commits) ==
    LET picks == autosquash_picks(todos, 1, <<>>, commits)
    IN  IF picks.ok THEN Ok([i \in 1..Len(picks.ret) |-> picks.ret[i][1]], <<>>)
        ELSE picks

autosquash_todos(todos, commits) ==
    LET picks == autosquash_picks(todos, 1, <<>>, commits)
    IN  IF picks.ok THEN Ok(Flatten(picks.ret), <<>>) ELSE picks

(***************************************************************************)
(* autosquash_todos on the todo list of every range of up to MaxSquash     *)
(* commits whose summaries are taken from SquashSummaries.                 *)
(***************************************************************************)
SquashSummaries ==
    {<<"a">>, <<"a", "b">>, <<"b">>, <<"#1">>,
     <<"fixup!", " ", "a">>, <<"squash!", " ", "a">>,
     <<"fixup!", " ", "fixup!", " ", "a">>,
     <<"fixup!", "a">>, <<"fixup!", " ">>,
     <<"fixup!", " ", "#1">>, <<"squash!", " ", "#2">>,
     <<"fixup!", " ", "fixup!">>}

RECURSIVE SquashRange(_)
SquashRange(summaries) ==
    IF summaries = <<>> THEN <<>>
    ELSE LET below == SquashRange(SubSeq(summaries, 1, Len(summaries) - 1))
         IN  Append(below,
                    CommitOid(EmptyTree,
                              IF below = <<>> THEN <<>> ELSE <<below[Len(below)]>>,
                              "author", "committer",
                              <<summaries[Len(summaries)]>>))

InitSquash ==
    /\ OdbIdle
    /\ inp \in {[commits |-> SquashRange(s)] :
                    s \in UNION {[1..n -> SquashSummaries] : n \in 1..MaxSquash}}
    /\ out = None
    /\ run = None

\* autosquash_todos(build_todos(commits, None))
AutosquashTodos ==
    /\ out = None
    /\ out' = [op |-> "autosquash_todos",
               r |-> autosquash_todos(build_todos(inp.commits, None), inp.commits)]
    /\ UNCHANGED <<odbVars, inp, run>>

\* the commit of the index on top of the range (Index.commit)
SquashIndex ==
    CommitOid(TreeWith(KeptEntry, None), <<inp.commits[Len(inp.commits)]>>,
              DefaultAuthor, DefaultCommitter, <<<<"<git index>">>>>)

\* autosquash_todos(build_todos(commits, staged))
AutosquashIndexed ==
    /\ out = None
    /\ out' = [op |-> "autosquash_index",
               r |-> autosquash_todos(build_todos(inp.commits, SquashIndex),
                                      inp.commits)]
    /\ UNCHANGED <<odbVars, inp, run>>

NextSquash ==
    \/ AutosquashTodos
    \/ AutosquashIndexed

SpecSquash == InitSquash /\ [][NextSquash]_vars

(***************************************************************************)
(* Normalization of a conflicted file (merge.py).  A file is the sequence  *)
(* of its lines, a line a string without its newline.  bytes.startswith    *)
(* on a marker is membership in the set of lines that start with it; the   *)
(* model has lines with a label and with a longer marker.  Some(h) and     *)
(* Nothing are the values of an Optional[bytes] hunk.  hashlib.sha1 is     *)
(* taken collision free: a digest is written as the sequence of the hunks  *)
(* fed to the hasher.                                                      *)
(***************************************************************************)
StartMarks == {"<<<<<<<", "<<<<<<<< ours"}
OrigMarks == {"|||||||"}
SepMarks == {"======="}
EndMarks == {">>>>>>>", ">>>>>>>> theirs"}
TextLines == {"a", "b"}

Some(h) == [some |-> TRUE, v |-> h]
Nothing == [some |-> FALSE, v |-> <<>>]

\* the order of bytes on the lines a hunk can hold
LineRank(line) ==
    IF line \in StartMarks THEN 1
    ELSE IF line \in SepMarks THEN 2
    ELSE IF line \in EndMarks THEN 3
    ELSE IF line = "a" THEN 4
    ELSE IF line = "b" THEN 5
    ELSE 6

hunk_le_unsorted(x, y) == TRUE

\* bytes.__le__ on hunks: every line ends with its newline, so the order of
\* the bytes is the lexicographic order of the lines
RECURSIVE hunk_le(_, _)
hunk_le(x, y) ==
    IF x = <<>> THEN TRUE
    ELSE IF y = <<>> THEN FALSE
    ELSE IF Head(x) = Head(y) THEN hunk_le(Tail(x), Tail(y))
    ELSE LineRank(Head(x)) < LineRank(Head(y))

Parsed(text, fed, next) ==
    [ok |-> TRUE, err |-> "", out |-> text, fed |-> fed, next |-> next]
ParseFailed == [ok |-> FALSE, err |-> "ConflictParseFailed", out |-> <<>>,
                fed |-> <<>>, next |-> 0]

\* normalize_conflict from the line at i on; next is the line after the
\* end of the conflict
RECURSIVE normalize_conflict(_, _, _, _, _)
normalize_conflict(lines, i, cur_hunk, other_hunk, hashing) ==
    LET nested(conflict) ==
            IF ~conflict.ok THEN conflict
            ELSE normalize_conflict(lines, conflict.next,
                                    IF cur_hunk.some
                                    THEN Some(cur_hunk.v \o conflict.out)
                                    ELSE cur_hunk,
                                    other_hunk, hashing)
        sorted(hunk1, hunk2) ==
            Parsed(<<"<<<<<<<">> \o hunk1 \o <<"=======">> \o hunk2 \o <<">>>>>>>">>,
                   IF hashing THEN <<hunk1, hunk2>> ELSE <<>>, i + 1)
    IN  IF i > Len(lines) THEN ParseFailed
        ELSE IF lines[i] \in StartMarks
        THEN nested(normalize_conflict(lines, i + 1, Some(<<>>), Nothing, FALSE))
        ELSE IF lines[i] \in OrigMarks
        THEN IF other_hunk.some THEN ParseFailed
             ELSE normalize_conflict(lines, i + 1, Nothing, cur_hunk, hashing)
        ELSE IF lines[i] \in SepMarks
        THEN IF cur_hunk.some /\ other_hunk.some THEN ParseFailed
             ELSE normalize_conflict(lines, i + 1, Some(<<>>),
                                     IF cur_hunk.some THEN cur_hunk ELSE other_hunk,
                                     hashing)
        ELSE IF lines[i] \in EndMarks
        THEN IF ~cur_hunk.some \/ ~other_hunk.some THEN ParseFailed
             ELSE IF hunk_le(cur_hunk.v, other_hunk.v)
             THEN sorted(cur_hunk.v, other_hunk.v)
             ELSE sorted(other_hunk.v, cur_hunk.v)
        ELSE normalize_conflict(lines, i + 1,
                                IF cur_hunk.some THEN Some(Append(cur_hunk.v, lines[i]))
                                ELSE cur_hunk,
                                other_hunk, hashing)

\* the loop of normalize_conflicted_file from the line at i on
RECURSIVE normalize_lines(_, _, _, _)
normalize_lines(lines, i, normalized, fed) ==
    LET block(conflict) ==
            IF ~conflict.ok THEN Raise(conflict.err, <<>>)
            ELSE normalize_lines(lines, conflict.next, normalized \o conflict.out,
                                 fed \o conflict.fed)
    IN  IF i > Len(lines)
        THEN Ok([normalized |-> normalized, conflict_id |-> [sha1 |-> fed]], <<>>)
        ELSE IF lines[i] \in StartMarks
        THEN block(normalize_conflict(lines, i + 1, Some(<<>>), Nothing, TRUE))
        ELSE normalize_lines(lines, i + 1, Append(normalized, lines[i]), fed)

\* normalize_conflicted_file feeding the hasher the whole normalized text
normalize_conflicted_file_whole(body) ==
    LET r == normalize_lines(body, 1, <<>>, <<>>)
    IN  IF r.ok
        THEN Ok([normalized |-> r.ret.normalized,
                 conflict_id |-> [sha1 |-> <<r.ret.normalized>>]], <<>>)
        ELSE r

normalize_conflicted_file(body) == normalize_lines(body, 1, <<>>, <<>>)

(***************************************************************************)
(* normalize_conflicted_file on well-formed conflicted files and on the    *)
(* same files with the sides of one conflict swapped.  A file is written   *)
(* as a sequence of items, [line |-> l] or [block |-> b]; a block has the  *)
(* two sides, the diff3 original section when there is one, and its marker *)
(* lines; a side holds lines and conflicts of lines.                       *)
(***************************************************************************)
Line(l) == [line |-> l]
Block(start, cur, orig, other, end) ==
    [block |-> [start |-> start, cur |-> cur, orig |-> orig, other |-> other,
                end |-> end]]

RECURSIVE Render(_)
Render(items) ==
    IF items = <<>> THEN <<>>
    ELSE LET item == Head(items)
         IN  (IF "line" \in DOMAIN item THEN <<item.line>>
              ELSE <<item.block.start>> \o Render(item.block.cur)
                   \o (IF item.block.orig.some
                       THEN <<"|||||||">> \o item.block.orig.v ELSE <<>>)
                   \o <<"=======">> \o Render(item.block.other)
                   \o <<item.block.end>>)
             \o Render(Tail(items))

TextHunks == UNION {[1..n -> {Line(l) : l \in TextLines}] : n \in 0..MaxHunk}
ShortHunks == {h \in TextHunks : Len(h) <= 1}
InnerBlocks ==
    {Block("<<<<<<<", c, Nothing, o, ">>>>>>>") : c \in ShortHunks, o \in ShortHunks}
Hunks ==
    TextHunks \cup {<<b>> : b \in InnerBlocks}
              \cup {<<Line("a"), b>> : b \in {Block("<<<<<<<", <<Line("b")>>, Nothing,
                                                     <<>>, ">>>>>>>")}}
OuterBlocks ==
    {Block(m.start, c, orig, o, m.end) :
        m \in {[start |-> "<<<<<<<", end |-> ">>>>>>>"],
               [start |-> "<<<<<<<< ours", end |-> ">>>>>>>> theirs"]},
        c \in Hunks, o \in Hunks, orig \in {Nothing, Some(<<"a">>)}}
ConflictedFiles ==
    {<<b>> : b \in OuterBlocks}
        \cup {<<Line("a"), b, Line("b")>> : b \in OuterBlocks}
        \cup {<<b, c>> : b \in OuterBlocks,
                         c \in {Block("<<<<<<<", <<Line("b")>>, Nothing,
                                      <<Line("a")>>, ">>>>>>>")}}

swap_sides(b) ==
    [block |-> [b.block EXCEPT !.cur = b.block.other, !.other = b.block.cur]]
SwapsInHunk(h) ==
    {[h EXCEPT ![k] = swap_sides(h[k])] :
        k \in {j \in 1..Len(h) : "block" \in DOMAIN h[j]}}
SwapsInBlock(b) ==
    {swap_sides(b)}
        \cup {[block |-> [b.block EXCEPT !.cur = h]] : h \in SwapsInHunk(b.block.cur)}
        \cup {[block |-> [b.block EXCEPT !.other = h]] : h \in SwapsInHunk(b.block.other)}
SwapsInFile(f) ==
    UNION {{[f EXCEPT ![k] = b] : b \in SwapsInBlock(f[k])} :
                k \in {j \in 1..Len(f) : "block" \in DOMAIN f[j]}}

InitNorm ==
    /\ OdbIdle
    /\ inp \in UNION {{[file |-> f, swapped |-> s] : s \in SwapsInFile(f)} :
                            f \in ConflictedFiles}
    /\ out = None
    /\ run = None

\* normalize_conflicted_file(body) on the file and on the swapped file
NormalizeConflictedFile ==
    /\ out = None
    /\ out' = [op |-> "normalize_conflicted_file",
               r |-> normalize_conflicted_file(Render(inp.file)),
               swapped |-> normalize_conflicted_file(Render(inp.swapped))]
    /\ UNCHANGED <<odbVars, inp, run>>

IsBlock(item) == "block" \in DOMAIN item

\* the file with every conflict, nested ones too, under other marker lines
RECURSIVE Relabelled(_, _, _)
Relabelled(items, start, end) ==
    [k \in 1..Len(items) |->
        IF IsBlock(items[k])
        THEN Block(start, Relabelled(items[k].block.cur, start, end),
                   items[k].block.orig,
                   Relabelled(items[k].block.other, start, end), end)
        ELSE items[k]]

\* the file with the diff3 original section of every conflict replaced
RECURSIVE WithOrig(_, _)
WithOrig(items, orig) ==
    [k \in 1..Len(items) |->
        IF IsBlock(items[k])
        THEN Block(items[k].block.start, WithOrig(items[k].block.cur, orig),
                   orig, WithOrig(items[k].block.other, orig),
                   items[k].block.end)
        ELSE items[k]]

RECURSIVE Spread(_, _)
Spread(blocks, after) ==
    IF blocks = <<>> THEN <<>>
    ELSE <<Head(blocks)>> \o after \o Spread(Tail(blocks), after)

\* the conflicts of the file with other lines before and after them
WithOutside(f, before, after) == before \o Spread(SelectSeq(f, IsBlock), after)

\* lines outside a conflict; a ======= there is a line like any other
OutsideLines == {<<>>, <<Line("a")>>, <<Line("b"), Line("=======")>>}

\* original sections: text, and a conflict of the base itself
OrigSections ==
    {Nothing, Some(<<"b", "a">>),
     Some(<<"<<<<<<<", "a", "=======", "b", ">>>>>>>">>)}

\* files with the same sides in the same top-level conflicts
Variants(f) ==
    {WithOutside(f, before, after) : before \in OutsideLines, after \in OutsideLines}
        \cup {Relabelled(f, start, end) : start \in StartMarks, end \in EndMarks}
        \cup {WithOrig(f, orig) : orig \in OrigSections}
        \cup {WithOutside(Relabelled(WithOrig(f, Some(<<"b", "a">>)),
                                     "<<<<<<<< ours", ">>>>>>>"),
                          <<Line("b")>>, <<>>)}

\* normalize_conflicted_file(body) on the file, on a file with the same
\* sides, and on the normalized text it returned
NormalizeVariant ==
    /\ out = None
    /\ \E v \in Variants(inp.file) :
        \E r \in {normalize_conflicted_file(Render(inp.file))} :
            out' = [op |-> "normalize_variant",
                    variant |-> v,
                    r |-> r,
                    other |-> normalize_conflicted_file(Render(v)),
                    again |-> IF r.ok
                              THEN normalize_conflicted_file(r.ret.normalized)
                              ELSE r]
    /\ UNCHANGED <<odbVars, inp, run>>

NextNorm == NormalizeConflictedFile \/ NormalizeVariant

SpecNorm == InitNorm /\ [][NextNorm]_vars

(***************************************************************************)
(* merge_blobs with the resolution cache (merge.py).  rr is the cache as   *)
(* merge_blobs finds it: rr.enabled is revise.rerere (or what it defaults  *)
(* to), rr.autoUpdate is rerere.autoUpdate, rr.entry is the directory      *)
(* rr-cache/<conflict id> of the conflict at hand, rr.write names the      *)
(* call of record_resolution that raises IOError, if any.  An entry is     *)
(* [dir, readable, preimage, postimage, used]: used says that the          *)
(* postimage's time was touched.  ans is the user: apply answers "Apply    *)
(* recorded resolution?", the rest is as in Answers.  The calls of a       *)
(* result list, in order, what merge_blobs ran, asked and printed; "git-   *)
(* path rr-cache" is the first thing replay_recorded_resolution does.      *)
(***************************************************************************)
NoEntry == [dir |-> FALSE, readable |-> FALSE, preimage |-> <<>>,
            postimage |-> <<>>, used |-> FALSE]

Replayed(normalized_preimage, conflict_id, merged_blob, calls, entry) ==
    [ok |-> TRUE, err |-> "", normalized_preimage |-> normalized_preimage,
     conflict_id |-> conflict_id, merged_blob |-> merged_blob, calls |-> calls,
     entry |-> entry]

replay_recorded_resolution_unasked(preimage, rr, ans, before) ==
    LET calls == Append(before, "git-path rr-cache")
        norm == normalize_conflicted_file(preimage)
        replay == merge_files(rr.entry.postimage, rr.entry.preimage,
                              norm.ret.normalized)
    IN  IF ~rr.enabled THEN Replayed(<<>>, None, None, calls, rr.entry)
        ELSE IF ~norm.ok
        THEN [ok |-> FALSE, err |-> norm.err, normalized_preimage |-> <<>>,
              conflict_id |-> None, merged_blob |-> None, calls |-> calls,
              entry |-> rr.entry]
        ELSE IF ~rr.entry.dir \/ ~rr.entry.readable \/ ~replay.clean
        THEN Replayed(norm.ret.normalized, norm.ret.conflict_id, None, calls,
                      rr.entry)
        ELSE Replayed(norm.ret.normalized, norm.ret.conflict_id,
                      BlobOid(replay.merged), Append(calls, "replayed"),
                      [rr.entry EXCEPT !.used = TRUE])

replay_recorded_resolution(preimage, rr, ans, before) ==
    LET calls == Append(before, "git-path rr-cache")
        norm == normalize_conflicted_file(preimage)
        asked == IF rr.autoUpdate THEN calls
                 ELSE Append(calls, "Apply recorded resolution?")
        replay == merge_files(rr.entry.postimage, rr.entry.preimage,
                              norm.ret.normalized)
    IN  IF ~rr.enabled THEN Replayed(<<>>, None, None, calls, rr.entry)
        ELSE IF ~norm.ok
        THEN [ok |-> FALSE, err |-> norm.err, normalized_preimage |-> <<>>,
              conflict_id |-> None, merged_blob |-> None, calls |-> calls,
              entry |-> rr.entry]
        ELSE IF ~rr.entry.dir
        THEN Replayed(norm.ret.normalized, norm.ret.conflict_id, None, calls,
                      rr.entry)
        ELSE IF ~rr.autoUpdate /\ ans.apply # "y"
        THEN Replayed(<<>>, None, None, asked, rr.entry)
        ELSE IF ~rr.entry.readable
        THEN Replayed(norm.ret.normalized, norm.ret.conflict_id, None,
                      Append(asked, "failed to read git-rerere cache"), rr.entry)
        ELSE IF ~replay.clean
        THEN Replayed(norm.ret.normalized, norm.ret.conflict_id, None, asked,
                      rr.entry)
        ELSE Replayed(norm.ret.normalized, norm.ret.conflict_id,
                      BlobOid(replay.merged), Append(asked, "replayed"),
                      [rr.entry EXCEPT !.used = TRUE])

record_resolution_never(conflict_id, normalized_preimage, postimage, rr) == rr.entry

\* the entry of the conflict after record_resolution
record_resolution(conflict_id, normalized_preimage, postimage, rr) ==
    IF conflict_id = None \/ rr.write = "mkdir" THEN rr.entry
    ELSE IF rr.write = "preimage" THEN [rr.entry EXCEPT !.dir = TRUE]
    ELSE IF rr.write = "postimage"
    THEN [rr.entry EXCEPT !.dir = TRUE, !.preimage = normalized_preimage]
    ELSE [dir |-> TRUE, readable |-> TRUE, preimage |-> normalized_preimage,
          postimage |-> postimage, used |-> FALSE]

Merged(ret, calls, entry) ==
    [ok |-> TRUE, err |-> "", ret |-> ret, calls |-> calls, entry |-> entry]
NotMerged(err, calls, entry) ==
    [ok |-> FALSE, err |-> err, ret |-> None, calls |-> calls, entry |-> entry]

merge_blobs_rerere_edit_always(current, base, other, ans, rr) ==
    LET mf == merge_files(current, base, other)
        manual(replay) ==
            LET c2 == Append(replay.calls, "Edit conflicted file?")
                c3 == Append(c2, "editor")
                c4 == Append(c3, "Merge successful?")
            IN  IF ~replay.ok THEN NotMerged(replay.err, replay.calls, replay.entry)
                ELSE IF ans.edit = "n" THEN NotMerged("MergeConflict", c2, replay.entry)
                ELSE IF ans.editor = "error"
                THEN NotMerged("EditorError", c3, replay.entry)
                ELSE IF ans.done # "y" THEN NotMerged("MergeConflict", c4, replay.entry)
                ELSE Merged(BlobOid(ans.text),
                            IF replay.conflict_id = None THEN c4
                            ELSE Append(c4, "Recording conflict resolution"),
                            record_resolution(replay.conflict_id,
                                              replay.normalized_preimage,
                                              ans.text, rr))
    IN  IF mf.clean THEN Merged(BlobOid(mf.merged), <<"merge-file">>, rr.entry)
        ELSE manual(replay_recorded_resolution(mf.merged, rr, ans, <<"merge-file">>))

merge_blobs_rerere(current, base, other, ans, rr) ==
    LET mf == merge_files(current, base, other)
        manual(replay) ==
            LET c2 == Append(replay.calls, "Edit conflicted file?")
                c3 == Append(c2, "editor")
                c4 == Append(c3, "Merge successful?")
            IN  IF ~replay.ok THEN NotMerged(replay.err, replay.calls, replay.entry)
                ELSE IF replay.merged_blob # None
                THEN Merged(replay.merged_blob, replay.calls, replay.entry)
                ELSE IF ans.edit = "n" THEN NotMerged("MergeConflict", c2, replay.entry)
                ELSE IF ans.editor = "error"
                THEN NotMerged("EditorError", c3, replay.entry)
                ELSE IF ans.done # "y" THEN NotMerged("MergeConflict", c4, replay.entry)
                ELSE Merged(BlobOid(ans.text),
                            IF replay.conflict_id = None THEN c4
                            ELSE Append(c4, "Recording conflict resolution"),
                            record_resolution(replay.conflict_id,
                                              replay.normalized_preimage,
                                              ans.text, rr))
    IN  IF mf.clean THEN Merged(BlobOid(mf.merged), <<"merge-file">>, rr.entry)
        ELSE manual(replay_recorded_resolution(mf.merged, rr, ans, <<"merge-file">>))

(***************************************************************************)
(* merge_blobs on files of at most one line, one of which is a line of     *)
(* equals signs, with every state of the cache and every user.             *)
(***************************************************************************)
RrBodies == {EmptyBody, <<"a">>, <<"b">>, <<"=======">>}
RrBases == {EmptyBody, <<"a">>}

RrAnswers ==
    {[apply |-> y, edit |-> a.edit, editor |-> a.editor, text |-> a.text,
      done |-> a.done] :
        y \in {"y", "n"},
        a \in {[edit |-> "n", editor |-> "ok", text |-> <<>>, done |-> "n"],
               [edit |-> "y", editor |-> "error", text |-> <<>>, done |-> "n"],
               [edit |-> "y", editor |-> "ok", text |-> <<"a", "b">>, done |-> "n"],
               [edit |-> "y", editor |-> "ok", text |-> <<"a", "b">>, done |-> "y"],
               [edit |-> "y", editor |-> "ok", text |-> <<"b">>, done |-> "y"]}}

EntryKinds == {"none", "recorded", "unreadable", "other preimage"}

\* the entry found for the conflict with the given preimage
EntryOf(kind, preimage) ==
    LET norm == normalize_conflicted_file(preimage)
    IN  IF kind = "none" \/ ~norm.ok THEN NoEntry
        ELSE [dir |-> TRUE, readable |-> kind # "unreadable",
              preimage |-> IF kind = "recorded" THEN norm.ret.normalized
                           ELSE IF kind = "unreadable" THEN <<>>
                           ELSE <<"a">> \o norm.ret.normalized,
              postimage |-> IF kind = "unreadable" THEN <<>> ELSE <<"b", "a">>,
              used |-> FALSE]

WriteFailures == {"none", "mkdir", "preimage", "postimage"}

InitRerere ==
    /\ OdbIdle
    /\ inp \in {[current |-> c, base |-> b, other |-> o, ans |-> a,
                 rr |-> [enabled |-> e, autoUpdate |-> u,
                         entry |-> EntryOf(k, merge_files(c, b, o).merged),
                         write |-> w]] :
                    c \in RrBodies, b \in RrBases, o \in RrBodies, a \in RrAnswers,
                    e \in BOOLEAN, u \in BOOLEAN, k \in EntryKinds,
                    w \in WriteFailures}
    /\ out = None
    /\ run = None

\* merge_blobs(path, labels, current, base, other)
MergeBlobs ==
    /\ out = None
    /\ out' = [op |-> "merge_blobs",
               r |-> merge_blobs_rerere(inp.current, inp.base, inp.other,
                                        inp.ans, inp.rr)]
    /\ UNCHANGED <<odbVars, inp, run>>

NextRerere == MergeBlobs

SpecRerere == InitRerere /\ [][NextRerere]_vars

(***************************************************************************)
(* cut_commit on root commits and on commits with one parent, for every    *)
(* selection git reset --patch can make and every result of the editor.    *)
(***************************************************************************)
CutTrees ==
    {TreeWith(x, y) : x \in {None, KeptEntry, Line2Entry}, y \in {None, KeptEntry}}
CutCommits ==
    {CommitOid(t, p, "author", "committer", <<"m">>) :
        t \in CutTrees, p \in {<<>>, <<H0>>, <<H1>>}}

InitCut ==
    /\ OdbIdle
    /\ inp \in [commit : CutCommits,
                env : [editor : EditorOutcomes, cut : CutChoices]]
    /\ out = None
    /\ run = None

\* cut_commit(commit)
CutCommit ==
    /\ out = None
    /\ out' = [op |-> "cut_commit", r |-> cut_commit(inp.commit, inp.env)]
    /\ UNCHANGED <<odbVars, inp, run>>

NextCut == CutCommit

SpecCut == InitCut /\ [][NextCut]_vars

(***************************************************************************)
(* apply_todos as a whole (todo.py): the steps in turn, then the check     *)
(* that something was applied.  calls is the log of all the steps.         *)
(***************************************************************************)
RECURSIVE apply_steps(_, _, _, _, _)
apply_steps(current, todos, reauthor, env, calls) ==
    LET next(r) ==
            IF ~r.ok THEN Raise(r.err, calls \o r.calls)
            ELSE IF r.brk THEN Ok(current, calls \o r.calls)
            ELSE apply_steps(r.ret, Tail(todos), reauthor, env, calls \o r.calls)
    IN  IF todos = <<>> THEN Ok(current, calls)
        ELSE next(apply_step(current, Head(todos), reauthor, env))

apply_todos_unchecked(current, todos, reauthor, env) ==
    apply_steps(current, todos, reauthor, env, <<>>)

apply_todos(current, todos, reauthor, env) ==
    LET done(r) ==
            IF r.ok /\ r.ret = None THEN Raise("ValueError", r.calls) ELSE r
    IN  done(apply_steps(current, todos, reauthor, env, <<>>))

(***************************************************************************)
(* Two commits C2 and C3 on top of C1, C2 changing the name a only and C3  *)
(* the name b only, picked in the other order.                             *)
(***************************************************************************)
ReorderEntries ==
    {None, Entry("EXEC", BlobOid(<<"1">>)), Entry("SYMLINK", BlobOid(<<"1">>))}
        \cup {Entry("REGULAR", BlobOid(b)) : b \in Bodies}
        \cup DirEntries

ReorderC1(x, y, root) ==
    CommitOid(TreeWith(x, y), IF root THEN <<>> ELSE <<H0>>,
              "author", "committer", <<"m1">>)
ReorderC2(c1, x) ==
    CommitOid(TreeWith(x, c1.tree_oid.tree["b"]), <<c1>>,
              "author2", "committer", <<"m2">>)
ReorderC3(c2, y) ==
    CommitOid(TreeWith(c2.tree_oid.tree["a"], y), <<c2>>,
              "author", "committer", <<"m3">>)

InitReorder ==
    /\ OdbIdle
    /\ inp \in {[c1 |-> ReorderC1(x1, y1, root),
                 c2 |-> ReorderC2(ReorderC1(x1, y1, root), x2),
                 c3 |-> ReorderC3(ReorderC2(ReorderC1(x1, y1, root), x2), y3),
                 reauthor |-> re,
                 env |-> env] :
                    x1 \in ReorderEntries, y1 \in ReorderEntries,
                    x2 \in ReorderEntries, y3 \in ReorderEntries,
                    root \in BOOLEAN, re \in BOOLEAN,
                    env \in {e \in EnvsFor("pick") :
                                e.user["a"].choice = "A"
                                \/ e.user["a"].editor = "error"}}
    /\ inp.c2.tree_oid # inp.c1.tree_oid
    /\ inp.c3.tree_oid # inp.c2.tree_oid
    /\ out = None
    /\ run = None

\* apply_todos(C1, [pick C3, pick C2])
ApplyReordered ==
    /\ out = None
    /\ out' = [op |-> "apply_todos",
               r |-> apply_todos(inp.c1,
                                 <<Step("pick", inp.c3), Step("pick", inp.c2)>>,
                                 inp.reauthor, inp.env)]
    /\ UNCHANGED <<odbVars, inp, run>>

NextReorder == ApplyReordered

SpecReorder == InitReorder /\ [][NextReorder]_vars

(***************************************************************************)
(* Repository.get_obj for a string (odb.py).  An identifier is written     *)
(* here as the sequence of the digits of its hexadecimal form, two bytes   *)
(* long; cached is Repository._objects in the order the objects were       *)
(* added, which is the order the shard (a dict) is scanned in; resp is the *)
(* answer of git cat-file: None for "missing", or the identifier found on  *)
(* disk.  "g" is a character that is no hexadecimal digit.                 *)
(***************************************************************************)
HexDigits == {"0", "1"}
HexOids == [1..4 -> HexDigits]

\* bytes.fromhex(ref) succeeds and abbrev[0] exists
fromhex_ok(text) ==
    /\ \A i \in 1..Len(text) : text[i] \in HexDigits
    /\ Len(text) % 2 = 0
    /\ Len(text) >= 2

\* the first object of the shard of abbrev[0] whose identifier starts with
\* abbrev, 0 when there is none
RECURSIVE scan_shard(_, _, _)
scan_shard(cached, abbrev, i) ==
    IF i > Len(cached) THEN 0
    ELSE IF SubSeq(cached[i], 1, 2) = SubSeq(abbrev, 1, 2)
            /\ startswith(cached[i], abbrev)
    THEN i
    ELSE scan_shard(cached, abbrev, i + 1)

get_obj_abbrev(text, cached, resp) ==
    LET found == scan_shard(cached, text, 1)
    IN  IF resp # None THEN Ok(resp.oid, <<"cat-file">>)
        ELSE IF fromhex_ok(text) /\ found # 0
        THEN Ok(cached[found], <<"cat-file">>)
        ELSE Raise("MissingObject", <<"cat-file">>)

(***************************************************************************)
(* get_obj for every text of up to two bytes and every cache of up to      *)
(* MaxCached objects.                                                      *)
(***************************************************************************)
Abbrevs ==
    UNION {[1..n -> HexDigits] : n \in 0..4} \cup {<<"g">>, <<"0", "g">>}
Caches ==
    {c \in UNION {[1..n -> HexOids] : n \in 0..MaxCached} :
        \A i \in 1..Len(c), j \in 1..Len(c) : i # j => c[i] # c[j]}

InitAbbrev ==
    /\ OdbIdle
    /\ inp \in [text : Abbrevs, cached : Caches,
                resp : {None, [oid |-> <<"1", "1", "1", "1">>]}]
    /\ out = None
    /\ run = None

\* repo.get_obj(text)
GetObjAbbrev ==
    /\ out = None
    /\ out' = [op |-> "get_obj",
               r |-> get_obj_abbrev(inp.text, inp.cached, inp.resp)]
    /\ UNCHANGED <<odbVars, inp, run>>

NextAbbrev == GetObjAbbrev

SpecAbbrev == InitAbbrev /\ [][NextAbbrev]_vars

(***************************************************************************)
(* Commit bodies (odb.py).  A body is written here as the sequence of its  *)
(* lines and a line as the sequence of its pieces, " " being one space: a  *)
(* header line is <<key, " ", ...>>, a continuation line starts with " ",  *)
(* and <<>> is an empty line.  An identifier is known by its hexadecimal   *)
(* form.                                                                   *)
(***************************************************************************)
Oid_fromhex(text) == [hex |-> text]
Oid_hex(oid) == oid.hex

\* Repository.sign_buffer: the header made of what gpg printed, nothing
\* when commits are not signed
sign_buffer(stdout) ==
    [i \in 1..Len(stdout) |->
        IF i = 1 THEN <<"gpgsig", " ">> \o stdout[i] ELSE <<" ">> \o stdout[i]]

\* the header lines new_commit writes before the signature
commit_headers(tree, parents, author, committer) ==
    <<<<"tree", " ", Oid_hex(tree)>>>>
        \o [i \in 1..Len(parents) |-> <<"parent", " ", Oid_hex(parents[i])>>]
        \o <<<<"author", " ">> \o author, <<"committer", " ">> \o committer>>

\* Repository.new_commit: the body of the commit
commit_body(tree, parents, message, author, committer, stdout) ==
    commit_headers(tree, parents, author, committer)
        \o sign_buffer(stdout) \o <<<<>>>> \o message

\* body.split(b"\n\n", maxsplit=1): the index of the first empty line
RECURSIVE first_blank(_, _)
first_blank(body, i) ==
    IF i > Len(body) \/ body[i] = <<>> THEN i ELSE first_blank(body, i + 1)

\* re.split(br"\n(?! )", hdrs): the last line of the header starting at i
RECURSIVE header_end(_, _)
header_end(hdrs, i) ==
    IF i < Len(hdrs) /\ hdrs[i + 1] # <<>> /\ hdrs[i + 1][1] = " "
    THEN header_end(hdrs, i + 1)
    ELSE i

\* hdr.split(maxsplit=1) and value.replace(b"\n ", b"\n"): the lines of the
\* value of the header in lines i..j
header_value(hdrs, i, j) ==
    [k \in 1..(j - i + 1) |->
        IF k = 1 THEN Tail(Tail(hdrs[i])) ELSE Tail(hdrs[i + k - 1])]

\* the loop of Commit._parse_body, with gpgsig reset at every header
commit_gpgsig(key, value, gpgsig) ==
    IF key = "gpgsig" THEN Some(value) ELSE Nothing

RECURSIVE parse_headers(_, _, _)
parse_headers(hdrs, i, commit) ==
    IF i > Len(hdrs) THEN commit
    ELSE LET j == header_end(hdrs, i)
             key == hdrs[i][1]
             value == header_value(hdrs, i, j)
             reset == [commit EXCEPT
                          !.gpgsig = commit_gpgsig(key, value, commit.gpgsig)]
         IN  parse_headers(hdrs, j + 1,
                 CASE key = "tree" ->
                        [reset EXCEPT !.tree_oid = Oid_fromhex(value[1][1])]
                   [] key = "parent" ->
                        [reset EXCEPT !.parent_oids =
                            Append(@, Oid_fromhex(value[1][1]))]
                   [] key = "author" -> [reset EXCEPT !.author = value[1]]
                   [] key = "committer" ->
                        [reset EXCEPT !.committer = value[1]]
                   [] OTHER -> reset)

\* Commit._parse_body
parse_body(body) ==
    LET k == first_blank(body, 1)
    IN  parse_headers(SubSeq(body, 1, k - 1), 1,
            [tree_oid |-> None, parent_oids |-> <<>>, author |-> None,
             committer |-> None, gpgsig |-> Nothing,
             message |-> SubSeq(body, k + 1, Len(body))])

(***************************************************************************)
(* _parse_body on the bodies new_commit builds and on bodies read from the *)
(* store, where the gpgsig header may come before other headers (an        *)
(* encoding header among them).                                            *)
(***************************************************************************)
BodyOids == {Oid_fromhex("1a"), Oid_fromhex("2b")}
BodyParents == UNION {[1..n -> BodyOids] : n \in 0..MaxParents}
BodySignatures == {<<"ann", " ", "0">>, <<"bob", " ", "1">>}
BodyMessages == {<<>>, <<<<"m">>>>, <<<<"m">>, <<>>, <<"n">>>>}
GpgOutputs ==
    {<<>>, <<<<"s1">>>>, <<<<"s1">>, <<"s2">>>>, <<<<"s1">>, <<>>, <<"s2">>>>}
ExtraHeaders == {<<>>, <<<<"encoding", " ", "latin1">>>>}

\* the body with the gpgsig header put after the first pos other headers
body_with_gpgsig_at(fields, pos) ==
    LET others == commit_headers(fields.tree, fields.parents, fields.author,
                                 fields.committer) \o fields.extra
    IN  SubSeq(others, 1, pos) \o sign_buffer(fields.stdout)
            \o SubSeq(others, pos + 1, Len(others))
            \o <<<<>>>> \o fields.message

InitParse ==
    /\ OdbIdle
    /\ inp \in {i \in [tree : BodyOids, parents : BodyParents,
                       author : BodySignatures, committer : BodySignatures,
                       message : BodyMessages, stdout : GpgOutputs,
                       extra : ExtraHeaders, pos : 0..(MaxParents + 4)] :
                  /\ i.pos <= 3 + Len(i.parents) + Len(i.extra)
                  /\ i.stdout = <<>> => i.pos = 3 + Len(i.parents) + Len(i.extra)}
    /\ out = None
    /\ run = None

\* Commit(repo, body) and the first read of one of its fields
ParseBody ==
    /\ out = None
    /\ out' = [op |-> "_parse_body",
               body |-> body_with_gpgsig_at(inp, inp.pos),
               commit |-> parse_body(body_with_gpgsig_at(inp, inp.pos))]
    /\ UNCHANGED <<odbVars, inp, run>>

NextParse == ParseBody

SpecParse == InitParse /\ [][NextParse]_vars

(***************************************************************************)
(* An entry that one side lacks, merged as an entry, as the name a of a    *)
(* tree, by a rebase and by a pick: DeletionNew is the new parent with the *)
(* entry current, DeletionOld the old parent with the entry base, and      *)
(* DeletionCommit the commit with the entry other.                         *)
(***************************************************************************)
DeletionNew ==
    CommitOid(TreeWith(inp.current, None), <<>>, "author", "committer", <<"new">>)
DeletionOld ==
    CommitOid(TreeWith(inp.base, None), <<>>, "author", "committer", <<"old">>)
DeletionCommit ==
    CommitOid(TreeWith(inp.other, None), <<DeletionOld>>, "author2", "committer",
              <<"commit">>)

InitDeletion ==
    /\ OdbIdle
    /\ inp \in {i \in [current : MergeEntrySet, base : MergeEntrySet,
                       other : MergeEntrySet] :
                    (i.current = None) # (i.other = None)}
    /\ out = None
    /\ run = None

\* DeletionCommit.rebase(DeletionNew)
RebaseDeletion ==
    \E user \in UniformUsers :
        /\ out = None
        /\ out' = [op |-> "rebase", user |-> user,
                   r |-> rebase(DeletionCommit, DeletionNew, user)]
        /\ UNCHANGED <<odbVars, inp, run>>

\* apply_todos(DeletionNew, [pick DeletionCommit])
ApplyDeletion ==
    \E user \in UniformUsers :
        /\ out = None
        /\ out' = [op |-> "apply_todos", user |-> user,
                   r |-> apply_todos(DeletionNew,
                                     <<Step("pick", DeletionCommit)>>, FALSE,
                                     [user |-> user, editor |-> "keep",
                                      cut |-> [n \in Names |-> "base"]])]
        /\ UNCHANGED <<odbVars, inp, run>>

NextDeletion ==
    \/ MergeEntries
    \/ MergeTrees
    \/ RebaseDeletion
    \/ ApplyDeletion

SpecDeletion == InitDeletion /\ [][NextDeletion]_vars

(***************************************************************************)
(* apply_todos atop no base (None) and atop the root H0, for every list of *)
(* up to MaxApply steps over H1, H2 and the index commit S2.               *)
(***************************************************************************)
ApplySteps == {Step(k, c) : k \in StepKinds, c \in {H1, H2}} \cup {Step("index", S2)}
ApplyLists == UNION {[1..n -> ApplySteps] : n \in 0..MaxApply}
ApplyEnvs ==
    {env \in Envs :
        env.cut \in {[n \in Names |-> "base"],
                     [n \in Names |-> IF n = "a" THEN "final" ELSE "base"]}}

InitApply ==
    /\ OdbIdle
    /\ inp \in [current : {None, H0}, todos : ApplyLists, reauthor : BOOLEAN,
                env : ApplyEnvs]
    /\ out = None
    /\ run = None

\* apply_todos(current, todos, reauthor)
ApplyTodos ==
    /\ out = None
    /\ out' = [op |-> "apply_todos",
               r |-> apply_todos(inp.current, inp.todos, inp.reauthor, inp.env)]
    /\ UNCHANGED <<odbVars, inp, run>>

NextApply == ApplyTodos

SpecApply == InitApply /\ [][NextApply]_vars

(***************************************************************************)
(* record_resolution and replay_recorded_resolution run by several         *)
(* processes on the directory rr-cache/<conflict id> of one conflict       *)
(* (merge.py).  Two processes record, each its own normalized preimage and *)
(* postimage; the others replay, with rerere.autoUpdate on.  out is the    *)
(* directory: dir says that it exists, preimage and postimage name the     *)
(* process whose bytes the file holds ("old" for bytes recorded before,    *)
(* "missing" when there is no file), read what each replay has read so     *)
(* far.  run.pc is the call each process makes next.  A call of mkdir,     *)
(* write_bytes, is_dir or read_bytes is one step.                          *)
(***************************************************************************)
Recorders == {"w1", "w2"}
Replayers == {"r1", "r2"}

\* the other process that holds a lock on MERGE_RR: record_resolution and
\* replay_recorded_resolution take none
rr_locked_between_writes(pcs, p) ==
    \E q \in Recorders \ {p} : pcs[q] \in {"preimage", "postimage"}

rr_locked(pcs, p) == FALSE

NotRead == [postimage |-> "unread", preimage |-> "unread", result |-> "unread"]

InitRecord ==
    /\ OdbIdle
    /\ inp \in [entry : {"none", "recorded"}]
    /\ out = [dir |-> inp.entry = "recorded",
              preimage |-> IF inp.entry = "recorded" THEN "old" ELSE "missing",
              postimage |-> IF inp.entry = "recorded" THEN "old" ELSE "missing",
              read |-> [r \in Replayers |-> NotRead]]
    /\ run = [pc |-> [p \in Recorders \cup Replayers |->
                        IF p \in Recorders THEN "mkdir" ELSE "is_dir"]]

\* conflict_dir.mkdir(exist_ok=True, parents=True)
RecordMkdir(p) ==
    /\ run.pc[p] = "mkdir"
    /\ ~rr_locked(run.pc, p)
    /\ out' = [out EXCEPT !.dir = TRUE]
    /\ run' = [run EXCEPT !.pc[p] = "preimage"]
    /\ UNCHANGED <<odbVars, inp>>

\* (conflict_dir / "preimage").write_bytes(normalized_preimage)
RecordPreimage(p) ==
    /\ run.pc[p] = "preimage"
    /\ ~rr_locked(run.pc, p)
    /\ out' = [out EXCEPT !.preimage = p]
    /\ run' = [run EXCEPT !.pc[p] = "postimage"]
    /\ UNCHANGED <<odbVars, inp>>

\* (conflict_dir / "postimage").write_bytes(postimage)
RecordPostimage(p) ==
    /\ run.pc[p] = "postimage"
    /\ ~rr_locked(run.pc, p)
    /\ out' = [out EXCEPT !.postimage = p]
    /\ run' = [run EXCEPT !.pc[p] = "done"]
    /\ UNCHANGED <<odbVars, inp>>

\* if not conflict_dir.is_dir(): return
ReplayIsDir(r) ==
    /\ run.pc[r] = "is_dir"
    /\ ~rr_locked(run.pc, r)
    /\ IF out.dir
       THEN /\ run' = [run EXCEPT !.pc[r] = "postimage"]
            /\ out' = out
       ELSE /\ run' = [run EXCEPT !.pc[r] = "done"]
            /\ out' = [out EXCEPT !.read[r].result = "no entry"]
    /\ UNCHANGED <<odbVars, inp>>

\* recorded_postimage = postimage_path.read_bytes()
ReplayReadPostimage(r) ==
    /\ run.pc[r] = "postimage"
    /\ ~rr_locked(run.pc, r)
    /\ IF out.postimage = "missing"
       THEN /\ run' = [run EXCEPT !.pc[r] = "done"]
            /\ out' = [out EXCEPT
                          !.read[r].postimage = "missing",
                          !.read[r].preimage = out.preimage,
                          !.read[r].result = "IOError"]
       ELSE /\ run' = [run EXCEPT !.pc[r] = "preimage"]
            /\ out' = [out EXCEPT !.read[r].postimage = out.postimage]
    /\ UNCHANGED <<odbVars, inp>>

\* recorded_preimage = preimage_path.read_bytes()
ReplayReadPreimage(r) ==
    /\ run.pc[r] = "preimage"
    /\ ~rr_locked(run.pc, r)
    /\ run' = [run EXCEPT !.pc[r] = "done"]
    /\ out' = [out EXCEPT
                  !.read[r].preimage = out.preimage,
                  !.read[r].result =
                      IF out.preimage = "missing" THEN "IOError" ELSE "merge"]
    /\ UNCHANGED <<odbVars, inp>>

NextRecord ==
    \/ \E p \in Recorders : RecordMkdir(p)
    \/ \E p \in Recorders : RecordPreimage(p)
    \/ \E p \in Recorders : RecordPostimage(p)
    \/ \E r \in Replayers : ReplayIsDir(r)
    \/ \E r \in Replayers : ReplayReadPostimage(r)
    \/ \E r \in Replayers : ReplayReadPreimage(r)

SpecRecord == InitRecord /\ [][NextRecord]_vars

(***************************************************************************)
(* apply_todos on the list build_todos makes of a range, as it is: tip is  *)
(* a commit of the histories above, base a commit or None.                 *)
(***************************************************************************)
InitUnmodified ==
    /\ OdbIdle
    /\ inp \in [base : {None, H0, H1, H2} \cup Roots,
                tip : {H0, H1, H2, S2} \cup Roots \cup Children,
                reauthor : BOOLEAN, env : ApplyEnvs]
    /\ out = None
    /\ run = None

\* apply_todos(base, build_todos(commit_range(base, tip), None), reauthor);
\* upto[k] is what the first k steps alone give
ApplyUnmodified ==
    /\ out = None
    /\ \E range \in {commit_range(inp.base, inp.tip)} :
        out' = [op |-> "apply_unmodified",
                range |-> range,
                r |-> IF range.ok
                      THEN apply_todos(inp.base, build_todos(range.ret, None),
                                       inp.reauthor, inp.env)
                      ELSE range,
                upto |-> IF range.ok
                         THEN [k \in 1..Len(range.ret) |->
                                  apply_todos(inp.base,
                                      build_todos(SubSeq(range.ret, 1, k), None),
                                      inp.reauthor, inp.env)]
                         ELSE <<>>]
    /\ UNCHANGED <<odbVars, inp, run>>

NextUnmodified == ApplyUnmodified

SpecUnmodified == InitUnmodified /\ [][NextUnmodified]_vars

(***************************************************************************)
(* The pipe to git cat-file --batch (odb.py, Repository.get_obj).  stdin   *)
(* counts the request lines written, stdout holds what the helper wrote    *)
(* and get_obj has not read yet.  A name stands for what the repository    *)
(* holds under it: an object of that kind on disk, nothing ("absent"), an  *)
(* abbreviation of several objects ("ambiguous"), or an object that was    *)
(* only built in memory ("new").  A reference is one line of text.         *)
(***************************************************************************)
PipeNames == {"commit", "tree", "blob", "tag", "absent", "ambiguous", "new"}

PipeRefs ==
    {arg \in [name : PipeNames, oid : BOOLEAN] :
        arg.oid => arg.name # "ambiguous"}

PipeItem(line, of, kind) == [line |-> line, of |-> of, kind |-> kind]

\* what git cat-file --batch writes for the request numbered req
cat_file(name, req) ==
    IF name \in {"absent", "new"} THEN <<PipeItem("missing", req, "")>>
    ELSE IF name = "ambiguous" THEN <<PipeItem("ambiguous", req, "")>>
    ELSE <<PipeItem("header", req, name), PipeItem("body", req, name)>>

PipeResult(pipe, wrote, header, body, r) ==
    [pipe |-> pipe, wrote |-> wrote, header |-> header, body |-> body, r |-> r]

\* get_obj raising on the kind of the header, before the body is read
get_obj_pipe_kind_first(arg, pipe) ==
    IF arg.oid /\ arg.name \in pipe.cached
    THEN PipeResult(pipe, 0, None, None, Ok(arg.name, <<>>))
    ELSE LET req == pipe.stdin + 1
             written == pipe.stdout \o cat_file(arg.name, req)
             resp == Head(written)
             rest == Tail(written)
             sent == [pipe EXCEPT !.stdin = req, !.stdout = rest]
         IN  IF resp.line = "missing"
             THEN PipeResult(sent, 1, resp, None,
                      IF ~arg.oid /\ arg.name \in pipe.cached
                      THEN Ok(arg.name, <<>>)
                      ELSE Raise("MissingObject", <<>>))
             ELSE IF resp.line # "header"
             THEN PipeResult(sent, 1, resp, None, Raise("ValueError", <<>>))
             ELSE IF resp.kind \notin {"commit", "tree", "blob"}
             THEN PipeResult(sent, 1, resp, None, Raise("ValueError", <<>>))
             ELSE PipeResult(
                      [sent EXCEPT !.stdout = Tail(rest),
                                   !.cached = @ \cup {resp.kind}],
                      1, resp, Head(rest), Ok(resp.kind, <<>>))

\* Repository.get_obj: a cached Oid is answered from the cache; otherwise
\* one line is written, one line read, and after a header the body is read
\* before the kind is looked at
get_obj_pipe(arg, pipe) ==
    IF arg.oid /\ arg.name \in pipe.cached
    THEN PipeResult(pipe, 0, None, None, Ok(arg.name, <<>>))
    ELSE LET req == pipe.stdin + 1
             written == pipe.stdout \o cat_file(arg.name, req)
             resp == Head(written)
             rest == Tail(written)
             sent == [pipe EXCEPT !.stdin = req, !.stdout = rest]
         IN  IF resp.line = "missing"
             THEN PipeResult(sent, 1, resp, None,
                      IF ~arg.oid /\ arg.name \in pipe.cached
                      THEN Ok(arg.name, <<>>)
                      ELSE Raise("MissingObject", <<>>))
             ELSE IF resp.line # "header"
             THEN PipeResult(sent, 1, resp, None, Raise("ValueError", <<>>))
             ELSE LET body == IF rest = <<>> THEN None ELSE Head(rest)
                      read == [sent EXCEPT
                                  !.stdout = IF rest = <<>> THEN rest
                                             ELSE Tail(rest)]
                  IN  IF resp.kind \in {"commit", "tree", "blob"}
                      THEN PipeResult(
                               [read EXCEPT !.cached = @ \cup {resp.kind}],
                               1, resp, body, Ok(resp.kind, <<>>))
                      ELSE PipeResult(read, 1, resp, body,
                                      Raise("ValueError", <<>>))

\* Repository.__init__: the helper is started, the cache is empty, and the
\* null Oid is looked up, which must be missing
InitPipe ==
    /\ OdbIdle
    /\ inp = None
    /\ out = None
    /\ \E probe \in {get_obj_pipe([name |-> "absent", oid |-> TRUE],
                             [stdin |-> 0, stdout |-> <<>>, cached |-> {},
                              n |-> 0])} :
        /\ ~probe.r.ok /\ probe.r.err = "MissingObject"
        /\ run = probe.pipe

GetObjPipe ==
    /\ run.n < MaxCalls
    /\ \E arg \in PipeRefs :
        \E res \in {get_obj_pipe(arg, run)} :
            /\ run' = [res.pipe EXCEPT !.n = @ + 1]
            /\ out' = [op |-> "get_obj", ref |-> arg, req |-> run.stdin + 1,
                       wrote |-> res.wrote, header |-> res.header,
                       body |-> res.body, r |-> res.r,
                       hit |-> arg.oid /\ arg.name \in run.cached,
                       after |-> IF out = None THEN "" ELSE out.ref.name]
    /\ UNCHANGED <<odbVars, inp>>

\* GitObj.__new__: an object built in memory enters the cache
NewObj ==
    /\ "new" \notin run.cached
    /\ run' = [run EXCEPT !.cached = @ \cup {"new"}]
    /\ UNCHANGED <<odbVars, inp, out>>

NextPipe == GetObjPipe \/ NewObj

SpecPipe == InitPipe /\ [][NextPipe]_vars

(***************************************************************************)
(* Properties of the object database and of the reference.                 *)
(***************************************************************************)

\* what an object refers to and git needs in the same store (a gitlink names
\* a commit of another repository)
Refers(o) ==
    IF IsCommit(o)
    THEN {o.tree_oid} \cup {o.parent_oids[i] : i \in 1..Len(o.parent_oids)}
    ELSE IF IsTree(o)
    THEN {o.tree[n].oid : n \in {m \in Names : o.tree[m] # None /\ o.tree[m].mode # "GITLINK"}}
    ELSE {}

RECURSIVE Complete(_, _)
Complete(o, store) == o \in store /\ \A d \in Refers(o) : Complete(d, store)

\* C2 as stated: whenever the target is known and another process wrote the
\* reference after it was last read, update() fails and changes neither the
\* reference on disk nor the in-memory target.
C2_MovedUpdateFails ==
    (last.op = "update" /\ last.target # None /\ last.moved)
        => (~last.ok /\ diskRef = last.onDisk /\ ref.target = last.target)

\* C2, amended: whenever the target is known and the reference on disk holds
\* another value than the target when update() runs, update() fails and
\* changes neither the reference on disk nor the in-memory target; a
\* reference moved away and back to the known value is updated.
C2_CompareAndSwap ==
    (last.op = "update" /\ last.target # None /\ last.onDisk # last.target)
        => (~last.ok /\ diskRef = last.onDisk /\ ref.target = last.target)

\* update-ref ran with the expected old value and refused
C2_Witness ==
    /\ last.op = "update" /\ last.target # None /\ last.onDisk # last.target
    /\ last.moved /\ last.invoked /\ ~last.ok

\* C3: the reference on disk never names an object missing from the store, nor
\* one whose tree, non-gitlink entries or parents are missing; and an update
\* whose persist failed did not run update-ref and left the reference alone.
C3_RefTargetStored ==
    /\ diskRef # None => Complete(diskRef, disk)
    /\ (last.op = "update" /\ ~last.stored)
            => (~last.invoked /\ diskRef = last.onDisk)

\* the reference was updated to a commit built in memory on another such commit
C3_Witness ==
    /\ last.op = "update" /\ last.ok /\ diskRef = last.new
    /\ diskRef \notin InitDisk
    /\ diskRef.parent_oids[1] \notin InitDisk

\* C4: every instance ever handed out is the one instance the cache holds for
\* its identifier: constructing its type and body again returns it, and so
\* does get_obj of its identifier.
C4_CacheIdentity ==
    \A h \in made :
        /\ h.oid \in DOMAIN objects
        /\ objects[h.oid].gen = h.gen
        /\ GitObj_new(h.oid, St(-1)).ret = h
        /\ get_obj(h.oid, St(-1)).ret = h
        /\ \A g \in made : g.oid = h.oid => g = h

\* a constructor was given the body of a cached commit
C4_Witness ==
    /\ last.op = "new" /\ last.hit
    /\ \E h \in made : IsCommit(h.oid) /\ h.oid \notin disk
    /\ \E h \in made : IsCommit(h.oid) /\ h.oid \in disk

\* C5: an object flagged persisted is in the store with everything it refers
\* to, transitively (gitlinks excepted), also after a persist that failed.
C5_PersistedComplete ==
    \A o \in DOMAIN objects : objects[o].persisted => Complete(o, disk)

\* a persist that failed part-way: the tree was written, the commit was not
C5_Witness ==
    /\ last.op = "persist" /\ ~last.ok
    /\ \E c \in DOMAIN objects :
          /\ IsCommit(c) /\ ~objects[c].persisted
          /\ c.tree_oid \notin InitDisk
          /\ objects[c.tree_oid].persisted

(***************************************************************************)
(* Properties of the merge and of the rebase.                              *)
(***************************************************************************)

\* C8: merge_entries resolves an entry with no prompt, editor or helper call,
\* in this precedence: base equal to current returns other; else base equal to
\* other returns current; else current equal to other returns current.  An
\* absent entry counts: an entry deleted on one side and untouched on the
\* other is absent from the merged tree.
C8_MergeEntriesPrecedence ==
    /\ (out # None /\ out.op = "merge_entries") =>
            /\ inp.base = inp.current => out.r = Ok(inp.other, <<>>)
            /\ (inp.base # inp.current /\ inp.base = inp.other) =>
                    out.r = Ok(inp.current, <<>>)
            /\ (inp.base # inp.current /\ inp.base # inp.other
                    /\ inp.current = inp.other) =>
                    out.r = Ok(inp.current, <<>>)
    /\ (out # None /\ out.op = "merge_trees" /\ out.r.ok) =>
            /\ out.r.ret.tree["b"] = None
            /\ (inp.base # None /\ inp.current = inp.base /\ inp.other = None) =>
                    out.r.ret.tree["a"] = None
            /\ (inp.base # None /\ inp.other = inp.base /\ inp.current = None) =>
                    out.r.ret.tree["a"] = None

C8_Witness ==
    /\ out # None
    /\ out.op = "merge_trees"
    /\ inp.base # None
    /\ inp.other = inp.base
    /\ inp.current = None
    /\ out.r = Ok(TreeOid(NoEntries), <<"merge_trees">>)

\* C7: for a commit c with at most one parent and a new parent p (a commit or
\* none), a rebase that returns gives a commit whose only parent is p (a root
\* commit when p is none), whose tree is the three-way merge of p's tree, the
\* tree of c's parent and c's tree (the empty tree for a missing commit), and
\* whose message and author are those of c.
C7_RebaseResult ==
    (out # None /\ out.op = "rebase" /\ out.r.ok
        /\ Len(inp.commit.parent_oids) <= 1) =>
        LET c == inp.commit
            p == inp.new_parent
            merged == merge_trees(IF p = None THEN EmptyTree ELSE p.tree_oid,
                                  IF c.parent_oids = <<>> THEN EmptyTree
                                  ELSE c.parent_oids[1].tree_oid,
                                  c.tree_oid, out.user, <<>>)
        IN  /\ out.r.ret.parent_oids = (IF p = None THEN <<>> ELSE <<p>>)
            /\ merged.ok
            /\ out.r.ret.tree_oid = merged.ret
            /\ out.r.ret.message = c.message
            /\ out.r.ret.author = c.author

C7_Witness ==
    /\ out # None
    /\ out.op = "rebase"
    /\ out.r.ok
    /\ inp.new_parent # None
    /\ inp.commit.parent_oids # <<>>
    /\ out.r.ret # inp.commit
    /\ Len(out.r.calls) > 1
    /\ out.r.ret.tree_oid \notin {inp.commit.tree_oid, inp.new_parent.tree_oid}

(***************************************************************************)
(* Properties of the todo list.                                            *)
(***************************************************************************)
HasDuplicate(new) ==
    \E i \in 1..Len(new), j \in 1..Len(new) : i # j /\ new[i].commit = new[j].commit
HasAdded(old, new) ==
    \E i \in 1..Len(new) : \A j \in 1..Len(old) : new[i].commit # old[j].commit
HasOmitted(old, new) ==
    \E j \in 1..Len(old) : \A i \in 1..Len(new) : new[i].commit # old[j].commit
HasMisplacedIndex(new) ==
    \E i \in 1..Len(new) :
        /\ new[i].kind = "index"
        /\ \E j \in (i + 1)..Len(new) : new[j].kind # "index"

\* C6: validate_todos accepts an edited list exactly when no commit appears
\* twice, its commits are those of the original list, and no non-index step
\* follows an index step, whatever the kinds; a duplicated, an added, an
\* omitted commit and a misplaced index step are each rejected, each with an
\* error of its own.
C6_ValidateTodos ==
    (out # None /\ out.op = "validate_todos") =>
        LET dup == HasDuplicate(inp.new)
            added == HasAdded(inp.old, inp.new)
            omitted == HasOmitted(inp.old, inp.new)
            misplaced == HasMisplacedIndex(inp.new)
        IN  /\ out.r.ok <=> ~(dup \/ added \/ omitted \/ misplaced)
            /\ ~out.r.ok => out.r.err = "ValueError"
            /\ (dup /\ ~added /\ ~omitted /\ ~misplaced) => out.r.msg = ErrDuplicate
            /\ (added /\ ~dup /\ ~omitted /\ ~misplaced) => out.r.msg = ErrAdded
            /\ (omitted /\ ~dup /\ ~added /\ ~misplaced) => out.r.msg = ErrMissing
            /\ (misplaced /\ ~dup /\ ~added /\ ~omitted) => out.r.msg = ErrIndexOrder
            /\ Cardinality({ErrDuplicate, ErrAdded, ErrMissing, ErrIndexOrder}) = 4

C6_Witness ==
    /\ out # None
    /\ out.op = "validate_todos"
    /\ out.r.ok
    /\ Len(inp.new) = 2
    /\ inp.new[1].commit = inp.old[2].commit
    /\ inp.new[1].kind = "reword"
    /\ inp.new[2].kind = "index"

(***************************************************************************)
(* Properties of a run of the tool.                                        *)
(***************************************************************************)

\* C1: in every run, interactive or not, git update-ref is called at most
\* once, and only once every step of the todo list (every commit of the
\* range) is done; when inner_main raises before update_head, update-ref was
\* never called; the tool changes the reference on disk only by the one
\* update-ref that succeeds, so that a failed run leaves it as it was.
C1_UpdateRefLast ==
    /\ [](/\ run.updates <= 1
          /\ run.updates = 1 =>
                /\ run.pc = "done" \/ (run.pc = "failed" /\ run.at = "update")
                /\ run.todos = <<>> \/ Head(run.todos).kind = "index"
          /\ (run.pc = "failed" /\ run.at # "update") => run.updates = 0
          /\ (run.pc = "failed" /\ ~moved /\ ref.target # None) =>
                diskRef = ref.target)
    /\ [][diskRef' # diskRef =>
            \/ ~moved /\ moved'
            \/ /\ run.updates = 0
               /\ run'.updates = 1
               /\ run'.pc = "done"
               /\ diskRef' = run.current]_vars

C1_Witness ==
    /\ run.pc = "failed"
    /\ run.at = "apply"
    /\ run.err = "MergeConflict"
    /\ run.steps >= 1
    /\ run.updates = 0
    /\ diskRef = inp.sc.head

\* C9 as first stated: folding a change into a commit (a fixup step, or the
\* staged changes in the non-interactive path) gives a commit with the
\* target's message, parents and author, the tree of the change rebased onto
\* the target, and the default committer.
C9_FoldHasDefaultCommitter ==
    (out # None /\ out.op \in {"step", "fold"} /\ out.kind \in {"fixup", "staged"}
        /\ out.ok) =>
        /\ out.folded.message = out.before.message
        /\ out.folded.parent_oids = out.before.parent_oids
        /\ out.folded.author = out.before.author
        /\ out.folded.tree_oid = out.rebased.tree_oid
        /\ out.folded.committer = DefaultCommitter

\* C9: folding a change into a commit (a fixup step, or the staged changes in
\* the non-interactive path) gives a commit with the target's message,
\* parents and author and the tree of the change rebased onto the target;
\* it has the default committer when that tree differs from the target's,
\* and is the target itself, committer included, when the tree is the same.
C9_FoldKeepsTarget ==
    (out # None /\ out.op \in {"step", "fold"} /\ out.kind \in {"fixup", "staged"}
        /\ out.ok) =>
        /\ out.folded.message = out.before.message
        /\ out.folded.parent_oids = out.before.parent_oids
        /\ out.folded.author = out.before.author
        /\ out.folded.tree_oid = out.rebased.tree_oid
        /\ out.rebased.tree_oid # out.before.tree_oid =>
                out.folded.committer = DefaultCommitter
        /\ out.rebased.tree_oid = out.before.tree_oid => out.folded = out.before

C9_Witness ==
    /\ out # None
    /\ out.op = "step"
    /\ out.kind = "fixup"
    /\ out.ok
    /\ out.before.committer = "committer"
    /\ out.folded.committer = DefaultCommitter
    /\ out.rebased.message # out.before.message
    /\ out.folded.tree_oid # out.before.tree_oid
    /\ Len(out.calls) > 1

\* C10: when apply_todos reaches an index step it stops: no rebase and no
\* merge is done for that step, nothing is raised, and the head it returns is
\* the head the steps before the index step produced.
C10_IndexStepStops ==
    (out # None /\ out.op = "step" /\ out.kind = "index") =>
        /\ out.ok
        /\ out.calls = <<>>
        /\ run.pc \in {"apply_end", "update", "done", "failed"}
        /\ run.current = out.before
        /\ run.pc = "failed" => run.at = "update"

(***************************************************************************)
(* Properties of autosquash_todos.                                         *)
(***************************************************************************)
Plain(step) ==
    /\ ~startswith(summary(step.commit), <<"fixup!">>)
    /\ ~startswith(summary(step.commit), <<"squash!">>)

SquashTodos == build_todos(inp.commits, None)

\* C11: autosquash_todos keeps the steps whose summary does not begin with
\* fixup! or squash! in the order they had, each with its kind.
C11_PlainOrderKept ==
    (out # None /\ out.op = "autosquash_todos" /\ out.r.ok) =>
        SelectSeq(out.r.ret, Plain) = SelectSeq(SquashTodos, Plain)

C11_Witness ==
    /\ out # None
    /\ out.op = "autosquash_todos"
    /\ out.r.ok
    /\ out.r.ret # SquashTodos
    /\ Len(SelectSeq(SquashTodos, Plain)) >= 3
    /\ \E i \in 1..Len(out.r.ret) : out.r.ret[i].kind = "squash"

\* the fixup!/squash! commit at f names the commit at t: the text left when
\* every leading fixup!/squash! is stripped starts T's summary, or resolves
\* to T's identifier
IsFixupOf(f, t) ==
    LET needle == strip_prefixes(summary(inp.commits[f]))
        target == get_commit(needle.ret, inp.commits)
    IN  /\ t < f
        /\ needle.ok
        /\ needle.ret # summary(inp.commits[f])
        /\ \/ startswith(summary(inp.commits[t]), needle.ret)
           \/ target.ok /\ target.ret = inp.commits[t]

PosOut(i) == CHOOSE p \in 1..Len(out.r.ret) : out.r.ret[p].commit = inp.commits[i]

C13_SwapSidesSameNormalForm ==
    (out # None /\ out.op = "normalize_conflicted_file") =>
        /\ out.r.ok
        /\ out.swapped.ok
        /\ out.r.ret.normalized = out.swapped.ret.normalized
        /\ out.r.ret.conflict_id = out.swapped.ret.conflict_id
        /\ \A i \in 1..Len(out.r.ret.normalized) :
              out.r.ret.normalized[i]
                  \in TextLines \cup {"<<<<<<<", "=======", ">>>>>>>"}

C13_Witness ==
    /\ out # None
    /\ out.op = "normalize_conflicted_file"
    /\ out.r.ok
    /\ Render(inp.file) # Render(inp.swapped)
    /\ inp.file[1].block.start = "<<<<<<<< ours"
    /\ inp.file[1].block.orig.some
    /\ \E k \in 1..Len(inp.file[1].block.other) :
            "block" \in DOMAIN inp.file[1].block.other[k]
    /\ out.r.ret.normalized # Render(inp.file)
    /\ out.r.ret.normalized # Render(inp.swapped)
    /\ Len(out.r.ret.conflict_id.sha1) = 2

(***************************************************************************)
(* Properties of merge_blobs with the resolution cache.                    *)
(***************************************************************************)
Asked(call) == \E i \in 1..Len(out.r.calls) : out.r.calls[i] = call

Confirmed == out.r.ok /\ Asked("Merge successful?")

Declined == Asked("Apply recorded resolution?") /\ inp.ans.apply # "y"

RecordedEntry ==
    [dir |-> TRUE, readable |-> TRUE,
     preimage |-> normalize_conflicted_file(
                      merge_files(inp.current, inp.base, inp.other).merged
                  ).ret.normalized,
     postimage |-> inp.ans.text, used |-> FALSE]

C15_ReplayNeedsConsent ==
    (out # None /\ out.op = "merge_blobs" /\ inp.rr.enabled /\ ~inp.rr.autoUpdate) =>
        /\ Asked("replayed") =>
                Asked("Apply recorded resolution?") /\ inp.ans.apply = "y"
        /\ (out.r.ok /\ ~Asked("Merge successful?") /\ Len(out.r.calls) > 1) =>
                inp.ans.apply = "y"
        /\ Declined =>
                /\ out.r.entry = inp.rr.entry
                /\ Asked("Edit conflicted file?")
                /\ ~Asked("replayed")

C15_Witness ==
    /\ out # None
    /\ out.op = "merge_blobs"
    /\ inp.rr.enabled
    /\ ~inp.rr.autoUpdate
    /\ Declined
    /\ inp.rr.entry.dir
    /\ inp.rr.entry.readable
    /\ inp.rr.entry.preimage = RecordedEntry.preimage
    /\ Confirmed
    /\ out.r.ret = BlobOid(inp.ans.text)
    /\ out.r.ret # BlobOid(inp.rr.entry.postimage)

Malformed ==
    /\ ~merge_files(inp.current, inp.base, inp.other).clean
    /\ ~normalize_conflicted_file(
            merge_files(inp.current, inp.base, inp.other).merged).ok

\* C16: when the conflicted output of the merge has malformed conflict
\* markers, merge_blobs does not raise ConflictParseFailed: replay is off for
\* the file and the user is asked to resolve it by hand.
C16_ParseFailureFallsBack ==
    (out # None /\ out.op = "merge_blobs" /\ inp.rr.enabled /\ Malformed) =>
        /\ out.r.err # "ConflictParseFailed"
        /\ Asked("Edit conflicted file?")

(***************************************************************************)
(* Properties of cut_commit.                                               *)
(***************************************************************************)
\* the tree git reset --patch leaves in the index
SelectedTree ==
    TreeOid([n \in Names |-> IF inp.env.cut[n] = "final"
                             THEN inp.commit.tree_oid.tree[n]
                             ELSE parent_tree(inp.commit).tree[n]])

\* C17: cut_commit(C) returns part2 whose only parent is part1; part1 has
\* C's parents (none for a root) and the selected tree, part2 has C's tree;
\* when the selected tree is the tree of C's parent or C's tree, the cut is
\* rejected and no commit is returned.
C17_CutKeepsTipTree ==
    (out # None /\ out.op = "cut_commit") =>
        /\ out.r.ok =>
            /\ Len(out.r.ret.parent_oids) = 1
            /\ out.r.ret.tree_oid = inp.commit.tree_oid
            /\ out.r.ret.parent_oids[1].parent_oids = inp.commit.parent_oids
            /\ out.r.ret.parent_oids[1].tree_oid = SelectedTree
        /\ SelectedTree \in {parent_tree(inp.commit), inp.commit.tree_oid} =>
            /\ ~out.r.ok
            /\ out.r.err = "ValueError"
            /\ out.r.ret = None

C17_Witness ==
    /\ out # None
    /\ out.op = "cut_commit"
    /\ out.r.ok
    /\ is_root(inp.commit)
    /\ is_root(out.r.ret.parent_oids[1])
    /\ SelectedTree \notin {EmptyTree, inp.commit.tree_oid}
    /\ out.r.ret.message # inp.commit.message

(***************************************************************************)
(* Properties of reordering.                                               *)
(***************************************************************************)

\* C18: picking C3 and then C2 on top of C1, where C2 and C3 change
\* different names, asks the user nothing and gives a tip with the tree of
\* the original tip; the tip has C2's message and C2's change, its parent
\* has C3's message and C3's change, and the parent of that is C1 itself.
C18_DisjointReorderCommutes ==
    (out # None /\ out.op = "apply_todos") =>
        /\ out.r.ok
        /\ \A i \in 1..Len(out.r.calls) : out.r.calls[i] = "merge_trees"
        /\ out.r.ret.tree_oid = inp.c3.tree_oid
        /\ out.r.ret.message = inp.c2.message
        /\ Len(out.r.ret.parent_oids) = 1
        /\ out.r.ret.parent_oids[1].message = inp.c3.message
        /\ out.r.ret.parent_oids[1].tree_oid =
              TreeWith(inp.c1.tree_oid.tree["a"], inp.c3.tree_oid.tree["b"])
        /\ out.r.ret.parent_oids[1].parent_oids = <<inp.c1>>

C18_Witness ==
    /\ out # None
    /\ out.op = "apply_todos"
    /\ out.r.ok
    /\ out.r.ret # inp.c3
    /\ out.r.calls # <<>>
    /\ inp.c1.tree_oid.tree["a"] # None
    /\ inp.c2.tree_oid.tree["a"] = None
    /\ inp.c3.tree_oid.tree["b"] # None
    /\ inp.c3.tree_oid.tree["b"].mode = "DIR"
    /\ inp.c1.tree_oid.tree["b"] # None
    /\ inp.c1.tree_oid.tree["b"].mode = "DIR"

(***************************************************************************)
(* Properties of get_obj for an abbreviated identifier.                    *)
(***************************************************************************)
CachedWithPrefix ==
    {i \in 1..Len(inp.cached) : startswith(inp.cached[i], inp.text)}

\* C19: when cat-file reports the text as missing and the text is a
\* hexadecimal prefix, get_obj returns a cached object only if exactly one
\* cached identifier starts with it; with two or more the lookup fails, and
\* with none it raises MissingObject.
C19_AbbrevUnique ==
    (out # None /\ out.op = "get_obj" /\ inp.resp = None
        /\ \A i \in 1..Len(inp.text) : inp.text[i] \in HexDigits) =>
        /\ out.r.ok =>
            /\ Cardinality(CachedWithPrefix) = 1
            /\ \E i \in CachedWithPrefix : out.r.ret = inp.cached[i]
        /\ Cardinality(CachedWithPrefix) >= 2 => ~out.r.ok
        /\ CachedWithPrefix = {} => (~out.r.ok /\ out.r.err = "MissingObject")

(***************************************************************************)
(* Properties of Commit._parse_body.                                       *)
(***************************************************************************)
\* C20: parsing a commit body yields the tree, the ordered parents, the
\* author, the committer and the message it was built from; when the body
\* has a gpgsig header, wherever it sits among the other headers, the parsed
\* gpgsig is that header's value with the continuation lines re-joined, and
\* gpgsig is none only when the body has no gpgsig header.
C20_ParseYieldsFields ==
    (out # None /\ out.op = "_parse_body") =>
        /\ out.commit.tree_oid = inp.tree
        /\ out.commit.parent_oids = inp.parents
        /\ out.commit.author = inp.author
        /\ out.commit.committer = inp.committer
        /\ out.commit.message = inp.message
        /\ inp.stdout # <<>> => out.commit.gpgsig = Some(inp.stdout)
        /\ out.commit.gpgsig = Nothing => inp.stdout = <<>>

\* the same for the bodies new_commit builds, the gpgsig header last
C20_BuiltBodiesParse ==
    (out # None /\ out.op = "_parse_body"
        /\ out.body = commit_body(inp.tree, inp.parents, inp.message,
                                  inp.author, inp.committer, inp.stdout)) =>
        /\ out.commit.tree_oid = inp.tree
        /\ out.commit.parent_oids = inp.parents
        /\ out.commit.author = inp.author
        /\ out.commit.committer = inp.committer
        /\ out.commit.message = inp.message
        /\ inp.stdout # <<>> => out.commit.gpgsig = Some(inp.stdout)
        /\ out.commit.gpgsig = Nothing => inp.stdout = <<>>

(***************************************************************************)
(* The order of the steps of merge_blobs.                                  *)
(***************************************************************************)
ReplayCalls == {"git-path rr-cache", "Apply recorded resolution?",
                "failed to read git-rerere cache", "replayed"}
ManualCalls == {"Edit conflicted file?", "editor", "Merge successful?",
                "Recording conflict resolution"}

\* the place of the call in what merge_blobs did, 0 when it was not made
CallAt(call) ==
    IF Asked(call)
    THEN CHOOSE i \in 1..Len(out.r.calls) : out.r.calls[i] = call
    ELSE 0

ReplayOf ==
    replay_recorded_resolution(
        merge_files(inp.current, inp.base, inp.other).merged, inp.rr, inp.ans,
        <<"merge-file">>)

\* C21: a clean merge is returned with no prompt and no use of the cache;
\* on a conflict replay comes before "Edit conflicted file?" and before the
\* editor; bytes that replay yields are the result, with no editor and
\* nothing recorded; the user is asked only when replay yields nothing, and
\* a refusal at either question raises MergeConflict and records nothing.
C21_MergeBlobsOrder ==
    (out # None /\ out.op = "merge_blobs") =>
        LET mf == merge_files(inp.current, inp.base, inp.other)
        IN  /\ mf.clean =>
                /\ out.r.ok /\ out.r.ret = BlobOid(mf.merged)
                /\ out.r.calls = <<"merge-file">>
                /\ out.r.entry = inp.rr.entry
            /\ ~mf.clean =>
                /\ CallAt("git-path rr-cache") = 2
                /\ \A i, j \in 1..Len(out.r.calls) :
                        (out.r.calls[i] \in ReplayCalls
                            /\ out.r.calls[j] \in ManualCalls) => i < j
                /\ Asked("editor") =>
                        CallAt("Edit conflicted file?") = CallAt("editor") - 1
                /\ Asked("Merge successful?") =>
                        CallAt("editor") = CallAt("Merge successful?") - 1
                /\ (ReplayOf.ok /\ ReplayOf.merged_blob # None) =>
                        /\ out.r.ok /\ out.r.ret = ReplayOf.merged_blob
                        /\ \A c \in ManualCalls : ~Asked(c)
                        /\ out.r.entry.preimage = inp.rr.entry.preimage
                        /\ out.r.entry.postimage = inp.rr.entry.postimage
                /\ Asked("Edit conflicted file?") =>
                        (ReplayOf.ok /\ ReplayOf.merged_blob = None)
                /\ (Asked("Edit conflicted file?") /\ inp.ans.edit = "n") =>
                        /\ ~out.r.ok /\ out.r.err = "MergeConflict"
                        /\ ~Asked("editor")
                        /\ out.r.entry = inp.rr.entry
                /\ (Asked("Merge successful?") /\ inp.ans.done # "y") =>
                        /\ ~out.r.ok /\ out.r.err = "MergeConflict"
                        /\ out.r.entry = inp.rr.entry

\* a recorded resolution was replayed, and the user would have edited
C21_Witness ==
    /\ out # None /\ out.op = "merge_blobs"
    /\ Asked("replayed") /\ out.r.ok
    /\ inp.ans.edit = "y" /\ inp.ans.done = "y"
    /\ out.r.ret # BlobOid(inp.ans.text)

(***************************************************************************)
(* Properties of the prompts of merge_entries.                             *)
(***************************************************************************)
Prompted(descr) == \E i \in 1..Len(out.r.calls) : out.r.calls[i] = descr

\* the result of a prompt between x and y, answered as the user at "a" does
Chosen(descr, x, y) ==
    IF out.user["a"].choice = "1" THEN out.r = Ok(x, <<descr>>)
    ELSE IF out.user["a"].choice = "2" THEN out.r = Ok(y, <<descr>>)
    ELSE out.r = Raise("MergeConflict", <<descr>>)

DifferentModes ==
    /\ out # None /\ out.op = "merge_entries"
    /\ inp.current # None /\ inp.other # None
    /\ inp.current.mode # inp.other.mode

BothFileModes == is_file(inp.current.mode) /\ is_file(inp.other.mode)

\* what C22 says of two file modes: the base's mode decides, or else the user
FileModesResolved ==
    /\ (inp.base # None /\ inp.base.mode = inp.current.mode) =>
            /\ ~Prompted("File mode")
            /\ out.r.ok => out.r.ret.mode = inp.other.mode
    /\ (inp.base # None /\ inp.base.mode = inp.other.mode) =>
            /\ ~Prompted("File mode")
            /\ out.r.ok => out.r.ret.mode = inp.current.mode
    /\ (inp.base = None
            \/ inp.base.mode \notin {inp.current.mode, inp.other.mode}) =>
            /\ out.r.calls # <<>> /\ out.r.calls[1] = "File mode"
            /\ out.user["a"].choice = "1" =>
                    (out.r.ok => out.r.ret.mode = inp.current.mode)
            /\ out.user["a"].choice = "2" =>
                    (out.r.ok => out.r.ret.mode = inp.other.mode)
            /\ out.user["a"].choice \notin {"1", "2"} =>
                    out.r = Raise("MergeConflict", <<"File mode">>)

\* C22 as first stated: with both sides present and of different modes, two
\* file modes are resolved by the base's mode or else by a prompt, and modes
\* that are not both file modes always lead to the entry-type prompt, which
\* returns one whole entry with no merge of contents.
C22_ModeConflicts ==
    DifferentModes =>
        /\ BothFileModes => FileModesResolved
        /\ ~BothFileModes => Chosen("Entry type", inp.current, inp.other)

\* C22: the same, the entry-type prompt being reached only when the base
\* entry equals neither side; when it equals one side the other side's entry
\* is returned with no prompt.
C22_ModeConflictsAfterShortcuts ==
    DifferentModes =>
        /\ BothFileModes => FileModesResolved
        /\ (~BothFileModes /\ inp.base # inp.current /\ inp.base # inp.other) =>
                Chosen("Entry type", inp.current, inp.other)
        /\ (~BothFileModes /\ inp.base = inp.current) =>
                out.r = Ok(inp.other, <<>>)
        /\ (~BothFileModes /\ inp.base # inp.current /\ inp.base = inp.other) =>
                out.r = Ok(inp.current, <<>>)

\* the user chose the mode of other for two files with no base entry, and
\* the contents merged
C22_Witness ==
    /\ DifferentModes /\ BothFileModes
    /\ inp.base = None
    /\ out.user["a"].choice = "2"
    /\ out.r.ok /\ out.r.ret.mode = inp.other.mode
    /\ out.r.calls[1] = "File mode"

(***************************************************************************)
(* Properties of the deletion prompt.                                      *)
(***************************************************************************)
PresentSide == IF inp.current = None THEN inp.other ELSE inp.current

\* what C23 says of a merge in which one side lacks the entry
DeletionPrompted ==
    LET choice == out.user["a"].choice
        aborted == ~out.r.ok /\ out.r.err = "MergeConflict" /\ out.r.ret = None
    IN  /\ out.op = "merge_entries" =>
                Chosen("Deletion", inp.current, inp.other)
        /\ out.op = "merge_trees" =>
                /\ Prompted("Deletion")
                /\ choice = "1" =>
                        (out.r.ok /\ out.r.ret.tree["a"] = inp.current)
                /\ choice = "2" =>
                        (out.r.ok /\ out.r.ret.tree["a"] = inp.other)
                /\ choice \notin {"1", "2"} => aborted
        /\ out.op \in {"rebase", "apply_todos"} =>
                /\ Prompted("Deletion")
                /\ choice = "1" =>
                        (out.r.ok /\ out.r.ret.tree_oid.tree["a"] = inp.current)
                /\ choice = "2" =>
                        (out.r.ok /\ out.r.ret.tree_oid.tree["a"] = inp.other)
                /\ choice \notin {"1", "2"} => aborted

\* C23 as first stated: when exactly one of current and other is absent and
\* the present side differs from base, merge_entries prompts; 1 gives the
\* current side (no entry in the merged tree when current is the deletion),
\* 2 the other side, and any other answer raises MergeConflict, which leaves
\* merge_trees, rebase and apply_todos with no tree and no commit returned.
C23_DeletionPrompt ==
    (out # None
        /\ (inp.current = None) # (inp.other = None)
        /\ PresentSide # inp.base) => DeletionPrompted

\* C23: the same when the base has the entry; an entry that the base lacks
\* was added by one side and is merged with no prompt.
C23_DeletionPromptWithBase ==
    /\ (out # None
            /\ (inp.current = None) # (inp.other = None)
            /\ inp.base # None
            /\ PresentSide # inp.base) => DeletionPrompted
    /\ (out # None /\ out.op = "merge_entries"
            /\ (inp.current = None) # (inp.other = None)
            /\ inp.base = None) => out.r = Ok(PresentSide, <<>>)

\* the user aborted at the deletion prompt of a pick
C23_Witness ==
    /\ out # None /\ out.op = "apply_todos"
    /\ inp.current = None /\ inp.base # None /\ inp.other # inp.base
    /\ out.user["a"].choice = "A"
    /\ Prompted("Deletion")
    /\ ~out.r.ok /\ out.r.err = "MergeConflict"

(***************************************************************************)
(* Properties of the groups of autosquash_todos.                           *)
(***************************************************************************)
\* the place in the range of the commit of the step at p of the result
InIdx(p) == CHOOSE i \in 1..Len(inp.commits) : inp.commits[i] = out.r.ret[p].commit

Attached(p) == out.r.ret[p].kind \in {"fixup", "squash"}

\* the step that opened the group of the step at p
OpenerOf(p) == CHOOSE q \in 1..p :
    /\ ~Attached(q)
    /\ \A r \in (q + 1)..p : Attached(r)

\* C24: a fixup!/squash! commit is attached only to a group opened by a step
\* that precedes it in the input, after the steps already in that group; the
\* steps that open a group keep the order they had; and a commit that names
\* no commit before it (itself, a later one, or none) stays the step it was,
\* opening a group of its own.
C24_AttachOnlyToEarlier ==
    (out # None /\ out.op = "autosquash_todos" /\ out.r.ok) =>
        /\ Len(out.r.ret) = Len(inp.commits)
        /\ ~Attached(1)
        /\ \A p \in 1..Len(out.r.ret) :
                Attached(p) =>
                    \A q \in OpenerOf(p)..(p - 1) : InIdx(q) < InIdx(p)
        /\ \A p, q \in 1..Len(out.r.ret) :
                (p < q /\ ~Attached(p) /\ ~Attached(q)) => InIdx(p) < InIdx(q)
        /\ \A f \in 1..Len(inp.commits) :
                (\A t \in 1..Len(inp.commits) : ~IsFixupOf(f, t)) =>
                    out.r.ret[PosOut(f)] = SquashTodos[f]

\* "fixup! fixup!" names itself, "fixup! a" names the commit after it, and
\* both stay picks where they were
C24_Witness ==
    /\ out # None /\ out.op = "autosquash_todos" /\ out.r.ok
    /\ Len(inp.commits) = 4
    /\ summary(inp.commits[2]) = <<"fixup!", " ", "fixup!">>
    /\ summary(inp.commits[3]) = <<"fixup!", " ", "a">>
    /\ summary(inp.commits[4]) = <<"a">>
    /\ out.r.ret = SquashTodos

(***************************************************************************)
(* Properties of apply_todos atop no base.                                 *)
(***************************************************************************)
\* the first step's commit was rebased onto no parent without an error
FirstRebased ==
    /\ inp.todos # <<>>
    /\ rebase(inp.todos[1].commit, None, inp.env.user).ok

\* C25: apply_todos returns a commit or raises, never none.  A fixup or a
\* squash step reached with no current head raises; a loop that ends with no
\* head (no step, or an index step first, atop no base) raises the
\* ValueError of an empty history; no head is returned then.
C25_CommitOrRaise ==
    (out # None /\ out.op = "apply_todos") =>
        /\ out.r.ok => (out.r.ret # None /\ IsCommit(out.r.ret))
        /\ ~out.r.ok => out.r.ret = None
        /\ (inp.current = None /\ inp.todos # <<>>
                /\ inp.todos[1].kind \in {"fixup", "squash"}) =>
                /\ ~out.r.ok
                /\ FirstRebased => out.r.err = "ValueError"
        /\ (inp.current = None /\ inp.todos = <<>>) =>
                out.r = Raise("ValueError", <<>>)
        /\ (inp.current = None /\ FirstRebased
                /\ inp.todos[1].kind = "index") =>
                (~out.r.ok /\ out.r.err = "ValueError")

\* an index step first atop no base: its commit is rebased, the user takes a
\* side at the prompt, the loop is left and nothing was introduced
C25_Witness ==
    /\ out # None /\ out.op = "apply_todos"
    /\ inp.current = None
    /\ inp.todos # <<>> /\ inp.todos[1].kind = "index"
    /\ FirstRebased
    /\ out.r.calls # <<>>
    /\ ~out.r.ok /\ out.r.err = "ValueError"

(***************************************************************************)
(* Properties of recording and replaying side by side.                     *)
(***************************************************************************)
\* C26: record_resolution takes no lock.  Whatever the other processes are
\* doing, a process that records can make its next call (mkdir, the write
\* of preimage, the write of postimage) and a process that replays can make
\* its next call (is_dir, the read of postimage, the read of preimage); the
\* two writes are two steps, the first leaving postimage as it was.
C26_NoLock ==
    (run # None /\ "pc" \in DOMAIN run) =>
        /\ \A p \in Recorders :
            /\ run.pc[p] = "mkdir" => ENABLED RecordMkdir(p)
            /\ run.pc[p] = "preimage" =>
                    ENABLED (RecordPreimage(p) /\ out'.postimage = out.postimage)
            /\ run.pc[p] = "postimage" => ENABLED RecordPostimage(p)
        /\ \A r \in Replayers :
            /\ run.pc[r] = "is_dir" => ENABLED ReplayIsDir(r)
            /\ run.pc[r] = "postimage" => ENABLED ReplayReadPostimage(r)
            /\ run.pc[r] = "preimage" => ENABLED ReplayReadPreimage(r)

\* the directory holds the preimage of one recording process and the
\* postimage of the other; one replay has read that pair and merges with
\* it, the other found the preimage of a process and no postimage
C26_Witness ==
    /\ run # None /\ "pc" \in DOMAIN run
    /\ out.preimage \in Recorders /\ out.postimage \in Recorders
    /\ out.preimage # out.postimage
    /\ out.read["r1"] = [postimage |-> out.postimage,
                         preimage |-> out.preimage, result |-> "merge"]
    /\ out.read["r2"].result = "IOError"
    /\ out.read["r2"].postimage = "missing"
    /\ out.read["r2"].preimage \in Recorders

(***************************************************************************)
(* Properties of autosquash_todos as a rearrangement.                      *)
(***************************************************************************)
SquashInput ==
    build_todos(inp.commits,
                IF out.op = "autosquash_index" THEN SquashIndex ELSE None)

\* C27: for a list built by build_todos, what autosquash_todos returns has
\* the length of the list and the same commits, each once, with the index
\* step last as it was, and validate_todos accepts it against the list.
C27_AutosquashPermutes ==
    (out # None /\ out.op \in {"autosquash_todos", "autosquash_index"}
        /\ out.r.ok) =>
        /\ Len(out.r.ret) = Len(SquashInput)
        /\ \A i \in 1..Len(SquashInput) :
                Cardinality({p \in 1..Len(out.r.ret) :
                                out.r.ret[p].commit = SquashInput[i].commit}) = 1
        /\ out.op = "autosquash_index" =>
                /\ out.r.ret[Len(out.r.ret)] = Step("index", SquashIndex)
                /\ \A p \in 1..(Len(out.r.ret) - 1) : out.r.ret[p].kind # "index"
        /\ validate_todos(SquashInput, out.r.ret) = Accept

\* a list with an index step that autosquash_todos rearranged
C27_Witness ==
    /\ out # None /\ out.op = "autosquash_index" /\ out.r.ok
    /\ Len(inp.commits) = 3
    /\ out.r.ret[2].kind = "fixup"
    /\ out.r.ret[2].commit = inp.commits[3]
    /\ out.r.ret[4].kind = "index"

(***************************************************************************)
(* Properties of an unmodified todo list.                                  *)
(***************************************************************************)
\* C28: for a linear range base..tip, applying the list build_todos makes
\* of it, without reauthor, returns tip itself, with no prompt, editor or
\* merge on the way, and every step gives the commit of the range it
\* names: no commit is made.
C28_UnmodifiedIsIdentity ==
    (out # None /\ out.op = "apply_unmodified" /\ out.range.ok
        /\ ~inp.reauthor) =>
        /\ out.r.ok
        /\ out.r.ret = inp.tip
        /\ out.r.calls = <<>>
        /\ \A k \in 1..Len(out.range.ret) :
                /\ out.upto[k].ok
                /\ out.upto[k].ret = out.range.ret[k]
                /\ out.upto[k].calls = <<>>

\* two commits on top of a base, applied as they are
C28_Witness ==
    /\ out # None /\ out.op = "apply_unmodified"
    /\ ~inp.reauthor
    /\ inp.base = H0 /\ inp.tip = H2
    /\ out.range = Ok(<<H1, H2>>, <<>>)
    /\ out.r.ok /\ out.r.ret = H2

(***************************************************************************)
(* C29: the batch-retrieval pipe stays in step.  After every get_obj call  *)
(* nothing the helper wrote is left unread; a call that missed the cache   *)
(* wrote one request line and read the answer to that very request, one    *)
(* line, and the body as well exactly when the line was an object header   *)
(* (of a known kind or not); a cache hit wrote and read nothing.           *)
(***************************************************************************)
C29_PipeInStep ==
    (out # None /\ out.op = "get_obj") =>
        /\ run.stdout = <<>>
        /\ out.hit => /\ out.wrote = 0
                      /\ out.header = None
                      /\ out.body = None
                      /\ out.r.ok
        /\ ~out.hit =>
            /\ out.wrote = 1
            /\ run.stdin = out.req
            /\ out.header # None
            /\ out.header.of = out.req
            /\ out.header.line \in {"header", "missing", "ambiguous"}
            /\ (out.header.line = "header") <=> (out.body # None)
            /\ out.body # None =>
                   out.body.line = "body" /\ out.body.of = out.req
            /\ out.r.ok => out.ref.name \in run.cached
            /\ (~out.r.ok /\ out.r.err = "MissingObject") =>
                   out.header.line = "missing"

\* a call after an object of unknown kind was looked up reads its own answer
C29_Witness ==
    /\ out # None /\ out.op = "get_obj"
    /\ out.after = "tag"
    /\ ~out.hit /\ out.r.ok
    /\ out.body # None /\ out.body.of = out.req

\* C30: the conflict identifier is a function of the two sides of the
\* top-level conflicts.  A file that differs from another only in the lines
\* outside its conflicts, in the labels or the length of its marker lines,
\* or in its diff3 original sections gets the same identifier; and the
\* normalized text, normalized again, comes back as it is with the same
\* identifier.
C30_IdOfSidesOnly ==
    (out # None /\ out.op = "normalize_variant") =>
        /\ out.r.ok
        /\ out.other.ok
        /\ out.other.ret.conflict_id = out.r.ret.conflict_id
        /\ out.again.ok
        /\ out.again.ret.normalized = out.r.ret.normalized
        /\ out.again.ret.conflict_id = out.r.ret.conflict_id

\* a file with a label, an original section and a nested conflict, and a
\* file with other lines around the same conflict
C30_Witness ==
    /\ out # None
    /\ out.op = "normalize_variant"
    /\ out.r.ok /\ out.other.ok /\ out.again.ok
    /\ Len(inp.file) = 3
    /\ inp.file[2].block.start = "<<<<<<<< ours"
    /\ inp.file[2].block.orig.some
    /\ \E k \in 1..Len(inp.file[2].block.cur) : IsBlock(inp.file[2].block.cur[k])
    /\ out.variant = WithOutside(inp.file, <<Line("b"), Line("=======")>>, <<Line("a")>>)
    /\ out.other.ret.normalized # out.r.ret.normalized
    /\ out.r.ret.normalized # Render(inp.file)
    /\ out.r.ret.conflict_id.sha1 # <<>>

====
